---- MODULE Spec2Model ----
(***************************************************************************)
(* Job registry (services/job_service.py) and the three background         *)
(* pipelines that drive it (routers/itinerary.py, routers/tasks.py).        *)
(*                                                                         *)
(* Python None is the string "None" for string-valued fields (error) and   *)
(* a record with key "None" for dict-valued ones (message, result), so     *)
(* that every field keeps one type.                                        *)
(***************************************************************************)
EXTENDS Integers, Sequences, FiniteSets, TLC

\* ------------------------------------------------------------------ bounds
MaxJobs == 2
MaxClock == 1
MaxDays == 2
MaxItems == 1
MaxNumDays == 82
MaxPolls == 1

JobIds == 1 .. MaxJobs
TripIds == {"t1"}

None == "None"
\* what a dict holds under a key it does not have
Missing == "Missing"
Statuses == {"pending", "processing", "completed", "failed"}
Terminal == {"completed", "failed"}

\* f-string messages: the text with its (up to two) interpolated numbers.
Msg(text, a, b) == [text |-> text, a |-> a, b |-> b]
NoMsg == Msg(None, 0, 0)
\* result dicts have one key: {"num_days": n}, {"items_count": n}, {"tasks_count": n}
Result(key, n) == [key |-> key, value |-> n]
NoResult == Result(None, 0)

\* what get_job_status returns for an id the registry does not hold
NoJob == [job_id |-> None]

VARIABLES
    supabase,         \* JobService.supabase: "client", or None when the environment is not configured
    jobs,             \* JobService._jobs: job_id -> job_data
    clock,            \* what datetime.utcnow() returns
    itinerary_items,  \* storage table itinerary_items, per trip_id, in insertion order
    tasks,            \* storage table tasks, per trip_id, in insertion order
    worker,           \* per job: the background coroutine's position and locals
    trace,            \* per job: the calls its worker has issued, in order
    client,           \* what the HTTP handlers have read and returned
    call              \* a synchronous agent call: its arguments and what it returned

vars == <<supabase, jobs, clock, itinerary_items, tasks, worker, trace, client, call>>

\* ---------------------------------------------------------------- registry

\* an id generator that may hand out an id a job already holds
uuid4_reused == CHOOSE id \in JobIds : \A o \in JobIds : id <= o

\* uuid.uuid4(): an id no job holds (the smallest free one: ids are opaque).
uuid4 == CHOOSE id \in JobIds \ DOMAIN jobs : \A o \in JobIds \ DOMAIN jobs : id <= o

\* JobService.create_job: the registry after the call, for the id drawn.
create_job(job_id, trip_id, job_type) ==
    LET now == clock
        job_data == [job_id     |-> job_id,
                     trip_id    |-> trip_id,
                     job_type   |-> job_type,
                     status     |-> "pending",
                     progress   |-> 0,
                     message    |-> Msg("Job created", 0, 0),
                     result     |-> NoResult,
                     error      |-> None,
                     created_at |-> now,
                     updated_at |-> now]
    IN  [id \in DOMAIN jobs \cup {job_id} |->
            IF id = job_id THEN job_data ELSE jobs[id]]

\* an update that stores a record under an id it does not know
update_job_status_upsert(job_id, status, progress, message, result, error) ==
    [id \in DOMAIN jobs \cup {job_id} |->
        [job_id |-> id,
         trip_id |-> IF id \in DOMAIN jobs THEN jobs[id].trip_id ELSE None,
         job_type |-> IF id \in DOMAIN jobs THEN jobs[id].job_type ELSE None,
         status |-> IF id = job_id THEN status ELSE jobs[id].status,
         progress |-> IF id = job_id THEN progress ELSE jobs[id].progress,
         message |-> IF id = job_id THEN message ELSE jobs[id].message,
         result |-> IF id = job_id THEN result ELSE jobs[id].result,
         error |-> IF id = job_id THEN error ELSE jobs[id].error,
         created_at |-> IF id \in DOMAIN jobs THEN jobs[id].created_at ELSE clock,
         updated_at |-> IF id = job_id THEN clock ELSE jobs[id].updated_at]]

\* an update whose writes to status and message land while those to progress,
\* result and error are still missing
update_job_status_torn(job_id, status, progress, message, result, error) ==
    IF job_id \notin DOMAIN jobs
    THEN jobs
    ELSE [jobs EXCEPT ![job_id] = [@ EXCEPT !.status = status, !.message = message]]

\* an update that stamps created_at as well
update_job_status_restamped(job_id, status, progress, message, result, error) ==
    IF job_id \notin DOMAIN jobs
    THEN jobs
    ELSE [jobs EXCEPT ![job_id] =
            [@ EXCEPT !.status = status, !.progress = progress, !.message = message,
                      !.result = result, !.error = error, !.updated_at = clock,
                      !.created_at = clock]]

\* JobService.update_job_status: the registry after the call.
update_job_status(job_id, status, progress, message, result, error) ==
    IF job_id \notin DOMAIN jobs
    THEN jobs
    ELSE LET now == clock
         IN  [jobs EXCEPT ![job_id] =
                [@ EXCEPT !.status     = status,
                          !.progress   = progress,
                          !.message    = message,
                          !.result     = result,
                          !.error      = error,
                          !.updated_at = now]]

\* JobService.get_job_status: the record, or None.
get_job_status(job_id) ==
    IF job_id \in DOMAIN jobs THEN jobs[job_id] ELSE NoJob

\* ----------------------------------------------------------------- storage

\* JobService.save_itinerary_items: the table after a successful call. The rows
\* keep the fields the pipelines decide (day_number, order_index, title); the
\* remaining columns are copied from the item unchanged.
save_itinerary_items(trip_id, items) ==
    IF supabase = None
    THEN itinerary_items
    ELSE [itinerary_items EXCEPT ![trip_id] =
             @ \o [i \in 1 .. Len(items) |->
                      \* "title": item.get("title")
                      [items[i] EXCEPT !.title = IF @ = Missing THEN None ELSE @]]]

\* a save that sends its insert twice
save_tasks_twice(trip_id, new_tasks) ==
    IF supabase = None
    THEN tasks
    ELSE [tasks EXCEPT ![trip_id] = @ \o new_tasks \o new_tasks]

\* JobService.save_tasks: the table after a successful call.
save_tasks(trip_id, new_tasks) ==
    IF supabase = None
    THEN tasks
    ELSE [tasks EXCEPT ![trip_id] = @ \o new_tasks]

\* supabase.table("itinerary_items").delete().eq("trip_id", trip_id)
delete_itinerary_items(trip_id) == [itinerary_items EXCEPT ![trip_id] = <<>>]

\* str(e) of an exception raised by an external call (storage, network)
ExcTexts == {"connection error"}

\* ------------------------------------------------------------ trip records

\* A date column: a day ordinal when the text is an ISO date, NoDate when
\* datetime.fromisoformat raises on it (null or malformed).
NoDate == -1
DestinationLists == {<<>>, <<"Tokyo, Japan">>}
UserIds == {None, "u1"}
NoTrip == [start_date |-> NoDate, end_date |-> NoDate, destinations |-> <<>>,
           user_id |-> None, found |-> FALSE]
TripRow(s, e, d, u) ==
    [start_date |-> s, end_date |-> e, destinations |-> d, user_id |-> u, found |-> TRUE]

\* rows the trips table may hold for a day-by-day or a modification job
ItineraryTripRows ==
    {TripRow(s, e, d, None) : s \in {NoDate, 1}, e \in {NoDate} \cup (0 .. MaxDays),
                              d \in DestinationLists}
\* rows for a trip of many days (every date valid)
LongTripRows == {TripRow(1, e, <<"Tokyo, Japan">>, None) : e \in 1 .. MaxNumDays}
\* rows the trips table may hold for a task-generation job
TaskTripRows == {TripRow(1, 1, d, u) : d \in DestinationLists, u \in UserIds}

\* (end_date - start_date).days + 1
num_days_of(trip_data) == (trip_data.end_date - trip_data.start_date) + 1

\* ---------------------------------------------------------- itinerary agent

\* One element of the JSON array the model returned: a dict with some of the
\* keys, or a non-dict value (isdict = FALSE). A title is text or null (None).
ItemKeys == {"title", "day_number", "order_index"}
Titles == {"Visit temple", None}
LLMItem(isdict, keys, title) ==
    [isdict |-> isdict, keys |-> keys,
     title        |-> IF "title" \in keys THEN title ELSE Missing,
     day_number   |-> IF "day_number" \in keys THEN 7 ELSE 0,
     order_index  |-> IF "order_index" \in keys THEN 5 ELSE 0]
LLMItems ==
    {LLMItem(FALSE, {}, Missing)} \cup {LLMItem(TRUE, k, t) : k \in SUBSET ItemKeys, t \in Titles}

RECURSIVE SeqsUpTo(_, _)
SeqsUpTo(S, n) ==
    IF n = 0 THEN {<<>>}
    ELSE LET shorter == SeqsUpTo(S, n - 1)
         IN  shorter \cup {Append(q, x) : q \in {r \in shorter : Len(r) = n - 1}, x \in S}

\* What json.loads makes of the cleaned response text:
\*   invalid       it raises JSONDecodeError
\*   empty_nonlist a value that is no list and iterates over nothing ({} or "")
\*   nonlist       any other value that is no list (object, number, null, text)
\*   list          a JSON array
Json(kind, items) == [kind |-> kind, items |-> items]
JsonValues(n) ==
    {Json("invalid", <<>>), Json("empty_nonlist", <<>>), Json("nonlist", <<>>)}
        \cup {Json("list", q) : q \in SeqsUpTo(LLMItems, n)}

\* self.model.invoke: it raises (raised = TRUE) or returns text
Response(raised, json) == [raised |-> raised, json |-> json]
Responses(n) == {Response(TRUE, Json("invalid", <<>>))} \cup {Response(FALSE, v) : v \in JsonValues(n)}
FailingResponses == {Response(TRUE, Json("invalid", <<>>))}

\* a stored or returned itinerary item
Item(day_number, order_index, title) ==
    [day_number |-> day_number, order_index |-> order_index, title |-> title]

\* what a call returns: a value, or the exception it raised
Return(v) == [raised |-> FALSE, value |-> v, error |-> ""]
Raise(text) == [raised |-> TRUE, value |-> <<>>, error |-> text]

\* ItineraryAgent._get_fallback_day
_get_fallback_day(trip_data, day_number) ==
    IF trip_data.destinations = <<>>
    THEN Raise("list index out of range")
    ELSE Return(<<Item(day_number, 0, "Explore")>>)

\* a parser that keeps the day_number the model gave
_parse_single_day_response_keep_day(json, trip_data, day_number) ==
    CASE json.kind = "invalid" -> _get_fallback_day(trip_data, day_number)
      [] json.kind = "nonlist" -> _get_fallback_day(trip_data, day_number)
      [] json.kind = "empty_nonlist" -> Return(<<>>)
      [] OTHER ->
            IF \E i \in 1 .. Len(json.items) : ~json.items[i].isdict
            THEN _get_fallback_day(trip_data, day_number)
            ELSE Return([i \in 1 .. Len(json.items) |->
                           Item(IF "day_number" \in json.items[i].keys
                                THEN json.items[i].day_number ELSE day_number,
                                i - 1, json.items[i].title)])

\* ItineraryAgent._parse_single_day_response
_parse_single_day_response(json, trip_data, day_number) ==
    CASE json.kind = "invalid" -> _get_fallback_day(trip_data, day_number)
      [] json.kind = "nonlist" -> _get_fallback_day(trip_data, day_number)
      [] json.kind = "empty_nonlist" -> Return(<<>>)
      [] OTHER ->
            IF \E i \in 1 .. Len(json.items) : ~json.items[i].isdict
            THEN _get_fallback_day(trip_data, day_number)
            ELSE Return([i \in 1 .. Len(json.items) |->
                           Item(day_number, i - 1, json.items[i].title)])

\* ItineraryAgent.generate_single_day
generate_single_day(trip_data, day_number, response) ==
    IF response.raised
    THEN _get_fallback_day(trip_data, day_number)
    ELSE LET parsed == _parse_single_day_response(response.json, trip_data, day_number)
         IN  IF parsed.raised THEN _get_fallback_day(trip_data, day_number) ELSE parsed

\* ItineraryAgent._parse_itinerary_response
_parse_itinerary_response(json) ==
    CASE json.kind = "invalid" -> Raise("Expecting value")
      [] json.kind \in {"nonlist", "empty_nonlist"} -> Raise("Response is not a list")
      [] OTHER ->
            IF \E i \in 1 .. Len(json.items) : ~json.items[i].isdict
            THEN Raise("object has no attribute 'get'")
            ELSE Return([i \in 1 .. Len(json.items) |->
                    LET item == json.items[i]
                    IN  Item(IF "day_number" \in item.keys THEN item.day_number ELSE 1,
                             IF "order_index" \in item.keys THEN item.order_index ELSE i - 1,
                             IF item.title = Missing THEN "Activity" ELSE item.title)])

\* ItineraryAgent.modify_itinerary
modify_itinerary(existing_items, response) ==
    IF response.raised
    THEN existing_items
    ELSE LET parsed == _parse_itinerary_response(response.json)
         IN  IF parsed.raised THEN existing_items ELSE parsed.value

\* --------------------------------------------------------------- task agent

Task(title, category) == [title |-> title, category |-> category]

\* what VisaAgent.generate_visa_tasks and VaccineAgent.generate_vaccine_tasks may
\* hand back to TaskAgent.generate_tasks: an exception, or a list of tasks
VisaOuts == {Raise("visa service error"), Return(<<>>),
             Return(<<Task("Apply for Japan visa", "visa")>>)}
VaccineOuts == {Raise("research error"), Return(<<>>),
                Return(<<Task("Get Yellow Fever vaccination", "health")>>)}

\* One element of the JSON array the model returned for the general tasks.
TaskKeys == {"title", "category"}
LLMTask(isdict, keys, title, category) ==
    [isdict |-> isdict, keys |-> keys,
     title    |-> IF "title" \in keys THEN title ELSE "",
     category |-> IF "category" \in keys THEN category ELSE ""]
\* a category is text in any letter case, or null (None)
LLMTasks ==
    {LLMTask(FALSE, {}, "", "")}
        \cup {LLMTask(TRUE, {"title"}, "Book flights", "")}
        \cup {LLMTask(TRUE, TaskKeys, t, c) :
                t \in {"Book hotel in Tokyo", "Get Vaccination shots"},
                c \in {"visa", "Visa", "health", "accommodation", None}}
TaskJsonValues(n) ==
    {Json("invalid", <<>>), Json("nonlist", <<>>)}
        \cup {Json("list", q) : q \in SeqsUpTo(LLMTasks, n)}
TaskResponses(n) ==
    {Response(TRUE, Json("invalid", <<>>))} \cup {Response(FALSE, v) : v \in TaskJsonValues(n)}

\* str.lower, on the texts that have capitals and matter to a comparison
lower(text) ==
    CASE text = "Visa" -> "visa"
      [] text = "Japan" -> "japan"
      [] text = "Yellow Fever" -> "yellow fever"
      [] text = "Typhoid" -> "typhoid"
      [] text = "Palau" -> "palau"
      [] text = "Atlantis" -> "atlantis"
      [] text = "Visa-free" -> "visa-free"
      [] text = "Visa required" -> "visa required"
      [] text = "eVisa" -> "evisa"
      [] text = "Freedom of movement" -> "freedom of movement"
      [] text = "Get Vaccination shots" -> "get vaccination shots"
      [] text = "Get Yellow Fever vaccination" -> "get yellow fever vaccination"
      [] OTHER -> text

\* any(word in title.lower() for word in ["vaccine", "vaccination", "immunization"])
mentions_vaccine(title) ==
    lower(title) \in {"get vaccination shots", "get yellow fever vaccination"}

\* TaskAgent._get_default_fallback_tasks
_get_default_fallback_tasks ==
    <<Task("Book international flights", "general"),
      Task("Book accommodation at destination", "accommodation"),
      Task("Get travel insurance", "general")>>

\* TaskAgent._get_fallback_tasks
_get_fallback_tasks(trip_data) ==
    LET destinations == trip_data.destinations
        n == Len(destinations)
    IN  <<Task("Book flights", "general"), Task("Get travel insurance", "general")>>
        \o [i \in 1 .. n |-> Task("Book accommodation", "accommodation")]
        \o [i \in 1 .. (IF n > 1 THEN n - 1 ELSE 0) |-> Task("Book transportation", "transportation")]
        \o <<Task("Notify bank of travel plans", "finance"),
             Task("Check passport validity", "documentation"),
             Task("Pack luggage", "packing")>>

\* TaskAgent._parse_task_response
_parse_task_response(json) ==
    IF json.kind # "list"
    THEN _get_default_fallback_tasks
    ELSE LET valid(t) == t.isdict /\ "title" \in t.keys /\ "category" \in t.keys
             kept == SelectSeq(json.items, valid)
             valid_tasks == [i \in 1 .. Len(kept) |-> Task(kept[i].title, kept[i].category)]
         IN  IF valid_tasks # <<>> THEN valid_tasks ELSE _get_default_fallback_tasks

\* visa_tasks and vaccine_tasks as generate_tasks holds them before the model
\* call: the specialist's list, or [] when it raised (or was not asked)
visa_tasks_of(user_citizenship, visa_out) ==
    IF user_citizenship \notin {None, ""} /\ ~visa_out.raised THEN visa_out.value ELSE <<>>
vaccine_tasks_of(vaccine_out) == IF ~vaccine_out.raised THEN vaccine_out.value ELSE <<>>

\* a merge that hands the general list through unfiltered
generate_tasks_unfiltered(trip_data, user_citizenship, visa_out, vaccine_out, response) ==
    visa_tasks_of(user_citizenship, visa_out) \o vaccine_tasks_of(vaccine_out)
        \o (IF response.raised THEN _get_fallback_tasks(trip_data)
            ELSE _parse_task_response(response.json))

\* a merge that answers a failed model call with the fallback tasks alone
generate_tasks_fallback_only(trip_data, user_citizenship, visa_out, vaccine_out, response) ==
    IF response.raised THEN _get_fallback_tasks(trip_data)
    ELSE generate_tasks_unfiltered(trip_data, user_citizenship, visa_out, vaccine_out, response)

\* TaskAgent.generate_tasks
generate_tasks(trip_data, user_citizenship, visa_out, vaccine_out, response) ==
    LET visa_tasks == visa_tasks_of(user_citizenship, visa_out)
        vaccine_tasks == vaccine_tasks_of(vaccine_out)
        not_visa(t) == lower(t.category) # "visa"
        not_vaccine(t) == ~(lower(t.category) = "health" /\ mentions_vaccine(t.title))
        no_lower(q) == \E i \in 1 .. Len(q) : q[i].category = None
        parsed == _parse_task_response(response.json)
        general1 == IF visa_tasks # <<>> THEN SelectSeq(parsed, not_visa) ELSE parsed
        general_tasks ==
            IF vaccine_tasks # <<>> THEN SelectSeq(general1, not_vaccine) ELSE general1
        \* None.lower() raises AttributeError inside whichever filter runs
        raised == \/ response.raised
                  \/ visa_tasks # <<>> /\ no_lower(parsed)
                  \/ vaccine_tasks # <<>> /\ no_lower(general1)
    IN  IF raised
        THEN visa_tasks \o vaccine_tasks \o _get_fallback_tasks(trip_data)
        ELSE visa_tasks \o vaccine_tasks \o general_tasks

\* ---------------------------------------------------------------- workers

\* one call a worker issued: its kind, how it ended (or the status an update
\* wrote), and the day or progress it carried
Ev(op, outcome, n) == [op |-> op, outcome |-> outcome, n |-> n]

\* the locals of a background coroutine when its thread starts
Locals(trip_id) ==
    [pc |-> "start", trip_id |-> trip_id, trip_data |-> NoTrip, num_days |-> 0,
     day |-> 0, day_items |-> <<>>, existing_items |-> <<>>, modified_items |-> <<>>,
     user_citizenship |-> None, tasks |-> <<>>]
\* a coroutine that has returned: its frame is gone
Finished == [Locals("") EXCEPT !.pc = "done"]

At(j, job_type, pc) ==
    /\ j \in DOMAIN worker
    /\ jobs[j].job_type = job_type
    /\ worker[j].pc = pc

\* progress_after with the per-day share rounded up instead of down
progress_after_ceil(day, num_days) == 10 + day * ((80 + num_days - 1) \div num_days)

\* progress_before = 10 + (day - 1) * (80 // num_days)
progress_before(day, num_days) == 10 + (day - 1) * (80 \div num_days)
\* progress_after = 10 + day * (80 // num_days)
progress_after(day, num_days) == 10 + day * (80 \div num_days)

\* the progress the except handlers pass with status "failed"
failed_progress(j) == 0

\* the message of the except handler of each worker
FailMessage(job_type) ==
    CASE job_type = "itinerary_generation" -> Msg("Failed to generate itinerary", 0, 0)
      [] job_type = "itinerary_modification" -> Msg("Failed to modify itinerary", 0, 0)
      [] OTHER -> Msg("Failed to generate tasks", 0, 0)

\* An await of update_job_status inside a worker, which then moves to `next`.
Update(j, status, progress, message, result, error, next) ==
    /\ jobs' = update_job_status(j, status, progress, message, result, error)
    /\ worker' = [worker EXCEPT ![j] = next]
    /\ trace' = [trace EXCEPT ![j] = Append(@, Ev("update", status, progress))]
    /\ UNCHANGED <<call, client, supabase, clock, itinerary_items, tasks>>

\* an except handler that passes no error text
Fail_no_error(j, evs, text) ==
    /\ jobs' = update_job_status(j, "failed", 0, FailMessage(jobs[j].job_type), NoResult, None)
    /\ worker' = [worker EXCEPT ![j] = Finished]
    /\ trace' = [trace EXCEPT ![j] = @ \o evs \o <<Ev("except", text, 0), Ev("update", "failed", 0)>>]
    /\ UNCHANGED <<call, client, supabase, clock, itinerary_items, tasks>>

\* an except handler that also deletes the trip's stored items
Fail_rollback(j, evs, text) ==
    /\ jobs' = update_job_status(j, "failed", 0, FailMessage(jobs[j].job_type), NoResult, text)
    /\ worker' = [worker EXCEPT ![j] = Finished]
    /\ trace' = [trace EXCEPT ![j] = @ \o evs \o <<Ev("except", text, 0), Ev("update", "failed", 0)>>]
    /\ itinerary_items' = delete_itinerary_items(jobs[j].trip_id)
    /\ UNCHANGED <<call, client, supabase, clock, tasks>>

\* an except handler that returns without writing to the registry
Fail_silent(j, evs, text) ==
    /\ worker' = [worker EXCEPT ![j] = Finished]
    /\ trace' = [trace EXCEPT ![j] = @ \o evs \o <<Ev("except", text, 0)>>]
    /\ UNCHANGED <<call, client, supabase, jobs, clock, itinerary_items, tasks>>

\* an except handler that reports a fixed text in place of str(e)
Fail_fixed_text(j, evs, text) ==
    /\ jobs' = update_job_status(j, "failed", 0, FailMessage(jobs[j].job_type), NoResult,
                                 "Internal error")
    /\ worker' = [worker EXCEPT ![j] = Finished]
    /\ trace' = [trace EXCEPT ![j] = @ \o evs \o <<Ev("except", text, 0), Ev("update", "failed", 0)>>]
    /\ UNCHANGED <<call, client, supabase, clock, itinerary_items, tasks>>

\* `except Exception as e:` of a worker, entered after the calls `evs`, the last
\* of which raised: the job is marked failed with str(e) and the coroutine returns.
\* The trace keeps the handler's entry with str(e) and its update.
Fail(j, evs, text) ==
    /\ jobs' = update_job_status(j, "failed", failed_progress(j),
                                 FailMessage(jobs[j].job_type), NoResult, text)
    /\ worker' = [worker EXCEPT ![j] = Finished]
    /\ trace' = [trace EXCEPT ![j] =
                    @ \o evs \o <<Ev("except", text, 0), Ev("update", "failed", failed_progress(j))>>]
    /\ UNCHANGED <<call, client, supabase, clock, itinerary_items, tasks>>

\* Calls that touch neither the registry nor the tables.
Local(j, evs, next) ==
    /\ worker' = [worker EXCEPT ![j] = next]
    /\ trace' = [trace EXCEPT ![j] = @ \o evs]
    /\ UNCHANGED <<call, client, supabase, jobs, clock, itinerary_items, tasks>>

\* get_supabase() and trips.select("*").eq("id", trip_id).single().execute():
\* the call raises, finds nothing, or returns one of `rows`.
\* create_client raises when the environment is not configured.
SelectTripRaises(j) ==
    \E e \in ExcTexts : Fail(j, <<Ev("select_trips", "raise", 0)>>, e)

\* ------------------------------------------- _generate_itinerary_async

\* a worker that fetches the trip without first marking the job processing
GenStart_no_update(j) ==
    /\ At(j, "itinerary_generation", "start")
    /\ Local(j, <<>>, [worker[j] EXCEPT !.pc = "fetch_trip"])

GenStart(j) ==
    /\ At(j, "itinerary_generation", "start")
    /\ Update(j, "processing", 5, Msg("Fetching trip details", 0, 0), NoResult, None,
              [worker[j] EXCEPT !.pc = "fetch_trip"])

GenFetchTrip(j, rows) ==
    /\ At(j, "itinerary_generation", "fetch_trip")
    /\ \/ SelectTripRaises(j)
       \/ /\ supabase # None
          /\ Fail(j, <<Ev("select_trips", "none", 0)>>, "Trip not found")
       \/ /\ supabase # None
          /\ \E row \in rows :
                IF row.start_date = NoDate \/ row.end_date = NoDate
                THEN Fail(j, <<Ev("select_trips", "ok", 0), Ev("num_days", "raise", 0)>>,
                          "fromisoformat: argument must be str")
                ELSE LET n == num_days_of(row)
                     IN  Local(j, <<Ev("select_trips", "ok", 0), Ev("num_days", "ok", n)>>,
                               [worker[j] EXCEPT !.trip_data = row, !.num_days = n, !.day = 1,
                                                 !.pc = IF 1 <= n THEN "before" ELSE "complete"])

GenBefore(j) ==
    /\ At(j, "itinerary_generation", "before")
    /\ LET w == worker[j]
       IN  Update(j, "processing", progress_before(w.day, w.num_days),
                  Msg("Generating Day", w.day, w.num_days), NoResult, None,
                  [w EXCEPT !.pc = "generate"])

GenGenerate(j, responses) ==
    /\ At(j, "itinerary_generation", "generate")
    /\ \E response \in responses :
          LET w == worker[j]
              out == generate_single_day(w.trip_data, w.day, response)
              ev == Ev("generate", IF response.raised THEN "raise" ELSE "ok", w.day)
          IN  IF out.raised
              THEN Fail(j, <<ev>>, out.error)
              ELSE Local(j, <<ev>>, [w EXCEPT !.day_items = out.value, !.pc = "save"])

GenSave(j) ==
    /\ At(j, "itinerary_generation", "save")
    /\ LET w == worker[j]
       IN  \/ /\ supabase # None
              /\ \E e \in ExcTexts : Fail(j, <<Ev("insert", "raise", w.day)>>, e)
           \/ /\ itinerary_items' = save_itinerary_items(w.trip_id, w.day_items)
              /\ worker' = [worker EXCEPT ![j] = [w EXCEPT !.pc = "after"]]
              /\ trace' = [trace EXCEPT ![j] = Append(@, Ev("insert", "ok", w.day))]
              /\ UNCHANGED <<call, client, supabase, jobs, clock, tasks>>

\* the "Day complete" update written in place of the insert
GenAfter_unsaved(j) ==
    /\ At(j, "itinerary_generation", "save")
    /\ LET w == worker[j]
       IN  Update(j, "processing", progress_after(w.day, w.num_days),
                  Msg("Day complete", w.day, w.num_days), NoResult, None,
                  [w EXCEPT !.pc = "summary"])

GenAfter(j) ==
    /\ At(j, "itinerary_generation", "after")
    /\ LET w == worker[j]
       IN  Update(j, "processing", progress_after(w.day, w.num_days),
                  Msg("Day complete", w.day, w.num_days), NoResult, None,
                  [w EXCEPT !.pc = "summary"])

\* ", ".join([item.get('title', '') for item in day_items[:3]]): it raises
\* TypeError on a title that is no text
GenSummary(j) ==
    /\ At(j, "itinerary_generation", "summary")
    /\ LET w == worker[j]
       IN  IF \E i \in 1 .. Len(w.day_items) : i <= 3 /\ w.day_items[i].title = None
           THEN Fail(j, <<Ev("summary", "raise", w.day)>>,
                     "sequence item 0: expected str instance, NoneType found")
           \* day_items is not read again before the next day assigns it
           ELSE Local(j, <<>>,
                      [w EXCEPT !.day = w.day + 1, !.day_items = <<>>,
                                !.pc = IF w.day + 1 <= w.num_days THEN "before" ELSE "complete"])

\* a completion whose closing print raises inside the try block, so that the
\* handler writes failed over completed
GenComplete_then_fails(j) ==
    /\ At(j, "itinerary_generation", "complete")
    /\ jobs' = update_job_status(j, "failed", 0, FailMessage(jobs[j].job_type), NoResult,
                                 "print failed")
    /\ worker' = [worker EXCEPT ![j] = Finished]
    /\ trace' = [trace EXCEPT ![j] = @ \o <<Ev("update", "completed", 100),
                                             Ev("except", "print failed", 0),
                                             Ev("update", "failed", 0)>>]
    /\ UNCHANGED <<call, client, supabase, clock, itinerary_items, tasks>>

GenComplete(j) ==
    /\ At(j, "itinerary_generation", "complete")
    /\ LET w == worker[j]
       IN  Update(j, "completed", 100, Msg("Generated itinerary", w.num_days, 0),
                  Result("num_days", w.num_days), None, Finished)

\* --------------------------------------------- _modify_itinerary_async

ModStart(j) ==
    /\ At(j, "itinerary_modification", "start")
    /\ Update(j, "processing", 10, Msg("Fetching current itinerary", 0, 0), NoResult, None,
              [worker[j] EXCEPT !.pc = "fetch_trip"])

ModFetchTrip(j, rows) ==
    /\ At(j, "itinerary_modification", "fetch_trip")
    /\ \/ SelectTripRaises(j)
       \/ /\ supabase # None
          /\ Local(j, <<Ev("select_trips", "none", 0)>>, [worker[j] EXCEPT !.pc = "fetch_items"])
       \/ /\ supabase # None
          /\ \E row \in rows :
                Local(j, <<Ev("select_trips", "ok", 0)>>,
                      [worker[j] EXCEPT !.trip_data = row, !.pc = "fetch_items"])

ModFetchItems(j) ==
    /\ At(j, "itinerary_modification", "fetch_items")
    /\ LET w == worker[j]
       IN  \/ \E e \in ExcTexts : Fail(j, <<Ev("select_items", "raise", 0)>>, e)
           \/ IF ~w.trip_data.found
              THEN Fail(j, <<Ev("select_items", "ok", 0)>>, "Trip not found")
              ELSE Local(j, <<Ev("select_items", "ok", 0)>>,
                         [w EXCEPT !.existing_items = itinerary_items[w.trip_id],
                                   !.pc = "update30"])

ModUpdate30(j) ==
    /\ At(j, "itinerary_modification", "update30")
    /\ Update(j, "processing", 30, Msg("Modifying itinerary with AI", 0, 0), NoResult, None,
              [worker[j] EXCEPT !.pc = "modify"])

ModModify(j, responses) ==
    /\ At(j, "itinerary_modification", "modify")
    /\ \E response \in responses :
          LET w == worker[j]
          IN  Local(j, <<Ev("generate", IF response.raised THEN "raise" ELSE "ok", 0)>>,
                    [w EXCEPT !.modified_items = modify_itinerary(w.existing_items, response),
                              !.pc = "update80"])

ModUpdate80(j) ==
    /\ At(j, "itinerary_modification", "update80")
    /\ Update(j, "processing", 80, Msg("Updating database", 0, 0), NoResult, None,
              [worker[j] EXCEPT !.pc = "delete"])

ModDelete(j) ==
    /\ At(j, "itinerary_modification", "delete")
    /\ LET w == worker[j]
       IN  \/ \E e \in ExcTexts : Fail(j, <<Ev("delete", "raise", 0)>>, e)
           \/ /\ itinerary_items' = delete_itinerary_items(w.trip_id)
              /\ worker' = [worker EXCEPT ![j] = [w EXCEPT !.pc = "insert"]]
              /\ trace' = [trace EXCEPT ![j] = Append(@, Ev("delete", "ok", 0))]
              /\ UNCHANGED <<call, client, supabase, jobs, clock, tasks>>

ModInsert(j) ==
    /\ At(j, "itinerary_modification", "insert")
    /\ LET w == worker[j]
       IN  \/ /\ supabase # None
              /\ \E e \in ExcTexts : Fail(j, <<Ev("insert", "raise", 0)>>, e)
           \/ /\ itinerary_items' = save_itinerary_items(w.trip_id, w.modified_items)
              /\ worker' = [worker EXCEPT ![j] = [w EXCEPT !.pc = "complete"]]
              /\ trace' = [trace EXCEPT ![j] = Append(@, Ev("insert", "ok", 0))]
              /\ UNCHANGED <<call, client, supabase, jobs, clock, tasks>>

ModComplete(j) ==
    /\ At(j, "itinerary_modification", "complete")
    /\ LET w == worker[j]
       IN  Update(j, "completed", 100, Msg("Itinerary modified successfully", 0, 0),
                  Result("items_count", Len(w.modified_items)), None, Finished)

\* ------------------------------------------------ _generate_tasks_async

TaskStart(j) ==
    /\ At(j, "task_generation", "start")
    /\ Update(j, "processing", 10, Msg("Fetching trip details", 0, 0), NoResult, None,
              [worker[j] EXCEPT !.pc = "fetch_trip"])

TaskFetchTrip(j, rows) ==
    /\ At(j, "task_generation", "fetch_trip")
    /\ \/ SelectTripRaises(j)
       \/ /\ supabase # None
          /\ Fail(j, <<Ev("select_trips", "none", 0)>>, "Trip not found")
       \/ /\ supabase # None
          /\ \E row \in rows :
                Local(j, <<Ev("select_trips", "ok", 0)>>,
                      [worker[j] EXCEPT !.trip_data = row,
                                        !.pc = IF row.user_id # None
                                               THEN "fetch_user" ELSE "update30"])

\* users.select("citizenship"): an exception or an empty answer leaves
\* user_citizenship None; otherwise it is the column's value
Citizenships == {None, "US"}

\* a lookup whose exception reaches the worker's except handler
TaskFetchUser_fatal(j) ==
    /\ At(j, "task_generation", "fetch_user")
    /\ \/ \E e \in ExcTexts : Fail(j, <<Ev("select_users", "raise", 0)>>, e)
       \/ Local(j, <<Ev("select_users", "none", 0)>>, [worker[j] EXCEPT !.pc = "update30"])

TaskFetchUser(j) ==
    /\ At(j, "task_generation", "fetch_user")
    /\ \/ Local(j, <<Ev("select_users", "raise", 0)>>, [worker[j] EXCEPT !.pc = "update30"])
       \/ Local(j, <<Ev("select_users", "none", 0)>>, [worker[j] EXCEPT !.pc = "update30"])
       \/ \E c \in Citizenships :
             Local(j, <<Ev("select_users", "ok", 0)>>,
                   [worker[j] EXCEPT !.user_citizenship = c, !.pc = "update30"])

TaskUpdate30(j) ==
    /\ At(j, "task_generation", "update30")
    /\ Update(j, "processing", 30, Msg("Generating tasks with AI", 0, 0), NoResult, None,
              [worker[j] EXCEPT !.pc = "generate"])

TaskGenerate(j, visa_outs, vaccine_outs, responses) ==
    /\ At(j, "task_generation", "generate")
    /\ \E visa_out \in visa_outs, vaccine_out \in vaccine_outs, response \in responses :
          LET w == worker[j]
          IN  Local(j, <<Ev("visa", IF w.user_citizenship \in {None, ""} THEN "skipped"
                                       ELSE IF visa_out.raised THEN "raise" ELSE "ok",
                            Len(visa_tasks_of(w.user_citizenship, visa_out))),
                         Ev("vaccine", IF vaccine_out.raised THEN "raise" ELSE "ok",
                            Len(vaccine_tasks_of(vaccine_out))),
                         Ev("generate", IF response.raised THEN "raise" ELSE "ok", 0)>>,
                    [w EXCEPT !.tasks = generate_tasks(w.trip_data, w.user_citizenship,
                                                       visa_out, vaccine_out, response),
                              !.pc = "update70"])

TaskUpdate70(j) ==
    /\ At(j, "task_generation", "update70")
    /\ Update(j, "processing", 70, Msg("Saving tasks to database", 0, 0), NoResult, None,
              [worker[j] EXCEPT !.pc = "save"])

TaskSave(j) ==
    /\ At(j, "task_generation", "save")
    /\ LET w == worker[j]
       IN  \/ /\ supabase # None
              /\ \E e \in ExcTexts : Fail(j, <<Ev("insert_tasks", "raise", 0)>>, e)
           \/ /\ tasks' = save_tasks(w.trip_id, w.tasks)
              /\ worker' = [worker EXCEPT ![j] = [w EXCEPT !.pc = "complete"]]
              /\ trace' = [trace EXCEPT ![j] = Append(@, Ev("insert_tasks", "ok", 0))]
              /\ UNCHANGED <<call, client, supabase, jobs, clock, itinerary_items>>

TaskComplete(j) ==
    /\ At(j, "task_generation", "complete")
    /\ LET w == worker[j]
       IN  Update(j, "completed", 100, Msg("Tasks generated successfully", 0, 0),
                  Result("tasks_count", Len(w.tasks)), None, Finished)

\* ------------------------------------------------------------ endpoints

\* POST /itinerary/generate, /itinerary/modify, /tasks/generate: create the job
\* and start the thread that runs its coroutine.
Launch(trip_id, job_type) ==
    /\ JobIds \ DOMAIN jobs # {}
    /\ LET job_id == uuid4
       IN  /\ jobs' = create_job(job_id, trip_id, job_type)
           /\ worker' = [id \in DOMAIN worker \cup {job_id} |->
                            IF id = job_id THEN Locals(trip_id) ELSE worker[id]]
           /\ trace' = [id \in DOMAIN trace \cup {job_id} |->
                            IF id = job_id THEN <<>> ELSE trace[id]]
    /\ UNCHANGED <<call, client, supabase, clock, itinerary_items, tasks>>

generate_itinerary(trip_id) == Launch(trip_id, "itinerary_generation")
modify_itinerary_endpoint(trip_id) == Launch(trip_id, "itinerary_modification")
generate_tasks_endpoint(trip_id) == Launch(trip_id, "task_generation")

\* JobStatusResponse(**job_status): the declared fields of the record as they
\* are when the dict is unpacked; job_type is no field of the schema.
JobStatusResponse(job_status) ==
    [job_id     |-> job_status.job_id,
     trip_id    |-> job_status.trip_id,
     status     |-> job_status.status,
     progress   |-> job_status.progress,
     message    |-> job_status.message,
     result     |-> job_status.result,
     error      |-> job_status.error,
     created_at |-> job_status.created_at,
     updated_at |-> job_status.updated_at]

\* client.response[j]  what the POST handler that created job j returned
\* client.poll         a GET /status handler between its get and its return:
\*                     the id it asked for and how many updates the job's
\*                     worker had completed when get_job_status returned
\* client.polled       the GET /status handlers that have returned
\* client.unknown_update  an update_job_status call has named an unknown id
NoPoll == [pc |-> "idle", job_id |-> 0, began |-> 0]
NoClient == [response |-> <<>>, poll |-> NoPoll, polled |-> <<>>, unknown_update |-> FALSE]

\* The POST handlers after the thread is started: get_job_status returns the
\* job's dict itself, and the response is built from what it holds then.
Respond(j) ==
    /\ j \in DOMAIN jobs
    /\ j \notin DOMAIN client.response
    /\ client' = [client EXCEPT !.response =
                     [id \in DOMAIN client.response \cup {j} |->
                         IF id = j THEN JobStatusResponse(get_job_status(j))
                         ELSE client.response[id]]]
    /\ UNCHANGED <<call, supabase, jobs, clock, itinerary_items, tasks, worker, trace>>

\* GET /status/{job_id}: job_status = await job_service.get_job_status(job_id),
\* 404 when it is None
PollGet(job_id) ==
    /\ client.poll.pc = "idle"
    /\ Len(client.polled) < MaxPolls
    /\ IF get_job_status(job_id) = NoJob
       THEN client' = [client EXCEPT !.polled =
                          Append(@, [job_id |-> job_id, began |-> 0, response |-> NoJob])]
       ELSE client' = [client EXCEPT !.poll =
                          [pc |-> "got", job_id |-> job_id,
                           began |-> Len(SelectSeq(trace[job_id], LAMBDA e : e.op = "update"))]]
    /\ UNCHANGED <<call, supabase, jobs, clock, itinerary_items, tasks, worker, trace>>

\* GET /status/{job_id}: return JobStatusResponse(**job_status), the dict being
\* the live record
PollReturn ==
    /\ client.poll.pc = "got"
    /\ client' = [client EXCEPT
                     !.polled = Append(@, [job_id |-> client.poll.job_id,
                                           began |-> client.poll.began,
                                           response |-> JobStatusResponse(jobs[client.poll.job_id])]),
                     !.poll = NoPoll]
    /\ UNCHANGED <<call, supabase, jobs, clock, itinerary_items, tasks, worker, trace>>

\* ------------------------------------------------------- specifications

\* every answer the model may give to an itinerary prompt, to a task prompt
ItineraryResponses == Responses(MaxItems)
TaskAgentResponses == TaskResponses(MaxItems)

\* what the itinerary_items table may hold when the process starts
InitialItems == {<<>>, <<Item(1, 0, "Old plan")>>}

\* no synchronous agent call is in hand
NoCall == [fn |-> "none", args |-> None, returned |-> FALSE, value |-> None]

Init ==
    /\ supabase \in {"client", None}
    /\ jobs = <<>>
    /\ clock = 0
    /\ itinerary_items \in [TripIds -> InitialItems]
    /\ tasks = [t \in TripIds |-> <<>>]
    /\ worker = <<>>
    /\ trace = <<>>
    /\ client = NoClient
    /\ call = NoCall

\* no request has been made yet
Alone == DOMAIN jobs = {}

\* one request arrives
Request ==
    \/ \E t \in TripIds : Alone /\ generate_itinerary(t)
    \/ \E t \in TripIds : Alone /\ modify_itinerary_endpoint(t)
    \/ \E t \in TripIds : Alone /\ generate_tasks_endpoint(t)

\* a background thread takes its next step
WorkerNext ==
    \/ \E j \in JobIds : GenStart(j)
    \/ \E j \in JobIds : GenFetchTrip(j, ItineraryTripRows)
    \/ \E j \in JobIds : GenBefore(j)
    \/ \E j \in JobIds : GenGenerate(j, ItineraryResponses)
    \/ \E j \in JobIds : GenSave(j)
    \/ \E j \in JobIds : GenAfter(j)
    \/ \E j \in JobIds : GenSummary(j)
    \/ \E j \in JobIds : GenComplete(j)
    \/ \E j \in JobIds : ModStart(j)
    \/ \E j \in JobIds : ModFetchTrip(j, ItineraryTripRows)
    \/ \E j \in JobIds : ModFetchItems(j)
    \/ \E j \in JobIds : ModUpdate30(j)
    \/ \E j \in JobIds : ModModify(j, ItineraryResponses)
    \/ \E j \in JobIds : ModUpdate80(j)
    \/ \E j \in JobIds : ModDelete(j)
    \/ \E j \in JobIds : ModInsert(j)
    \/ \E j \in JobIds : ModComplete(j)
    \/ \E j \in JobIds : TaskStart(j)
    \/ \E j \in JobIds : TaskFetchTrip(j, TaskTripRows)
    \/ \E j \in JobIds : TaskFetchUser(j)
    \/ \E j \in JobIds : TaskUpdate30(j)
    \/ \E j \in JobIds : TaskGenerate(j, VisaOuts, VaccineOuts, TaskAgentResponses)
    \/ \E j \in JobIds : TaskUpdate70(j)
    \/ \E j \in JobIds : TaskSave(j)
    \/ \E j \in JobIds : TaskComplete(j)

\* Spec follows one request, with everything its collaborators may answer.
Next == Request \/ WorkerNext

Spec == Init /\ [][Next]_vars

\* A started thread runs its coroutine to the end: every await returns or raises.
FairSpec == Spec /\ WF_vars(WorkerNext)

\* SpecLong follows one request over trips of up to MaxNumDays days, where the
\* model call fails every time (the progress arithmetic does not read its answer).
NextLong ==
    \/ Request
    \/ \E j \in JobIds : GenStart(j)
    \/ \E j \in JobIds : GenFetchTrip(j, LongTripRows)
    \/ \E j \in JobIds : GenBefore(j)
    \/ \E j \in JobIds : GenGenerate(j, FailingResponses)
    \/ \E j \in JobIds : GenSave(j)
    \/ \E j \in JobIds : GenAfter(j)
    \/ \E j \in JobIds : GenSummary(j)
    \/ \E j \in JobIds : GenComplete(j)
    \/ \E j \in JobIds : ModStart(j)
    \/ \E j \in JobIds : ModFetchTrip(j, LongTripRows)
    \/ \E j \in JobIds : ModFetchItems(j)
    \/ \E j \in JobIds : ModUpdate30(j)
    \/ \E j \in JobIds : ModModify(j, FailingResponses)
    \/ \E j \in JobIds : ModUpdate80(j)
    \/ \E j \in JobIds : ModDelete(j)
    \/ \E j \in JobIds : ModInsert(j)
    \/ \E j \in JobIds : ModComplete(j)
    \/ \E j \in JobIds : TaskStart(j)
    \/ \E j \in JobIds : TaskFetchTrip(j, TaskTripRows)
    \/ \E j \in JobIds : TaskFetchUser(j)
    \/ \E j \in JobIds : TaskUpdate30(j)
    \/ \E j \in JobIds : TaskGenerate(j, VisaOuts, VaccineOuts, FailingResponses)
    \/ \E j \in JobIds : TaskUpdate70(j)
    \/ \E j \in JobIds : TaskSave(j)
    \/ \E j \in JobIds : TaskComplete(j)

SpecLong == Init /\ [][NextLong]_vars

\* SpecEndpoint follows one request together with the handler that answers it
\* and a polling client, over one trip row and a model call that fails (the
\* handlers read nothing the trip or the model decide).
OneTripRow == {TripRow(1, 1, <<"Tokyo, Japan">>, "u1")}
QuietOuts == {Return(<<>>)}
PollIds == JobIds \cup {0}

NextEndpoint ==
    \/ Request
    \/ \E j \in JobIds : Respond(j)
    \/ \E j \in PollIds : PollGet(j)
    \/ PollReturn
    \/ \E j \in JobIds : GenStart(j)
    \/ \E j \in JobIds : GenFetchTrip(j, OneTripRow)
    \/ \E j \in JobIds : GenBefore(j)
    \/ \E j \in JobIds : GenGenerate(j, FailingResponses)
    \/ \E j \in JobIds : GenSave(j)
    \/ \E j \in JobIds : GenAfter(j)
    \/ \E j \in JobIds : GenSummary(j)
    \/ \E j \in JobIds : GenComplete(j)
    \/ \E j \in JobIds : ModStart(j)
    \/ \E j \in JobIds : ModFetchTrip(j, OneTripRow)
    \/ \E j \in JobIds : ModFetchItems(j)
    \/ \E j \in JobIds : ModUpdate30(j)
    \/ \E j \in JobIds : ModModify(j, FailingResponses)
    \/ \E j \in JobIds : ModUpdate80(j)
    \/ \E j \in JobIds : ModDelete(j)
    \/ \E j \in JobIds : ModInsert(j)
    \/ \E j \in JobIds : ModComplete(j)
    \/ \E j \in JobIds : TaskStart(j)
    \/ \E j \in JobIds : TaskFetchTrip(j, OneTripRow)
    \/ \E j \in JobIds : TaskFetchUser(j)
    \/ \E j \in JobIds : TaskUpdate30(j)
    \/ \E j \in JobIds : TaskGenerate(j, QuietOuts, QuietOuts, FailingResponses)
    \/ \E j \in JobIds : TaskUpdate70(j)
    \/ \E j \in JobIds : TaskSave(j)
    \/ \E j \in JobIds : TaskComplete(j)

SpecEndpoint == Init /\ [][NextEndpoint]_vars

\* ------------------------------------------------ the registry on its own

\* argument tuples callers of update_job_status may pass
UpdateArgs ==
    {[status |-> "processing", progress |-> 10,  result |-> NoResult, error |-> None],
     [status |-> "completed",  progress |-> 100, result |-> Result("num_days", 1), error |-> None],
     [status |-> "failed",     progress |-> 0,   result |-> NoResult, error |-> "Trip not found"]}
JobTypes == {"itinerary_generation", "itinerary_modification", "task_generation"}

\* a caller awaits create_job
RegCreate(trip_id, job_type) ==
    /\ JobIds \ DOMAIN jobs # {}
    /\ jobs' = create_job(uuid4, trip_id, job_type)
    /\ UNCHANGED <<call, client, supabase, clock, itinerary_items, tasks, worker, trace>>

\* a caller awaits update_job_status with any id and any of the argument tuples
RegUpdate(job_id, a) ==
    /\ jobs' = update_job_status(job_id, a.status, a.progress, NoMsg, a.result, a.error)
    /\ client' = IF job_id \in DOMAIN jobs THEN client
                 ELSE [client EXCEPT !.unknown_update = TRUE]
    /\ UNCHANGED <<call, supabase, clock, itinerary_items, tasks, worker, trace>>

\* time passes
Tick ==
    /\ clock < MaxClock
    /\ clock' = clock + 1
    /\ UNCHANGED <<call, client, supabase, jobs, itinerary_items, tasks, worker, trace>>

NextRegistry ==
    \/ \E t \in TripIds, k \in JobTypes : RegCreate(t, k)
    \/ \E j \in JobIds \cup {0}, a \in UpdateArgs : RegUpdate(j, a)
    \/ Tick

\* the registry reads neither the storage client nor the stored items
InitRegistry ==
    /\ Init
    /\ supabase = "client"
    /\ itinerary_items = [t \in TripIds |-> <<>>]

SpecRegistry == InitRegistry /\ [][NextRegistry]_vars

\* a caller awaits get_job_status with any id; call keeps whether a record
\* came back
RegGet(job_id) ==
    /\ call' = [fn |-> "get_job_status", args |-> None, returned |-> TRUE,
                value |-> IF get_job_status(job_id) # NoJob THEN "record" ELSE None]
    /\ UNCHANGED <<client, supabase, jobs, clock, itinerary_items, tasks, worker, trace>>

SpecRegistryGet == InitRegistry /\ [][NextRegistry \/ \E j \in PollIds : RegGet(j)]_vars

\* ------------------------------------------------ accommodation agent

MaxSections == 3

\* One blank-line separated section of the research text, by what the patterns
\* of _extract_accommodation_from_text find in it (Missing: no match; price:
\* the number matched, if any) and whether it is at least 50 characters long.
Sections ==
    {[long |-> FALSE, name |-> "Park Hotel", type |-> "hotel", price |-> <<120>>,
      range_category |-> "luxury"],
     [long |-> TRUE, name |-> Missing, type |-> Missing, price |-> <<>>,
      range_category |-> Missing],
     [long |-> TRUE, name |-> Missing, type |-> Missing, price |-> <<80>>,
      range_category |-> "budget"],
     [long |-> TRUE, name |-> Missing, type |-> "hotel", price |-> <<>>,
      range_category |-> Missing],
     [long |-> TRUE, name |-> "Park Hotel", type |-> "hotel", price |-> <<120>>,
      range_category |-> "luxury"]}

\* "name" in item or "type" in item: the section yields an item, not None
identified(section) == section.name # Missing \/ section.type # Missing

\* AccommodationAgent._extract_accommodation_from_text
_extract_accommodation_from_text(section) ==
    IF identified(section)
    THEN [name |-> section.name, type |-> section.type,
          price_per_night |-> section.price, range_category |-> section.range_category]
    ELSE None

\* AccommodationAgent._calculate_total_nights; trip_data.dated says that both
\* dates are present and readable, trip_data.nights is the days between them
_calculate_total_nights(trip_data) ==
    IF ~trip_data.dated THEN 7
    ELSE IF trip_data.nights >= 1 THEN trip_data.nights ELSE 1

\* AccommodationAgent._determine_range_category; budget_per_night is kept as
\* the pair (num, den) it is the quotient of
_determine_range_category(price, budget_per_night, requested_range) ==
    IF requested_range # "all" THEN requested_range
    ELSE IF price * 10 * budget_per_night.den <= budget_per_night.num * 6 THEN "budget"
    ELSE IF price * 10 * budget_per_night.den <= budget_per_night.num * 12 THEN "mid-range"
    ELSE "luxury"

\* AccommodationAgent._create_fallback_recommendation
_create_fallback_recommendation(destination, index, budget_per_night, range_type) ==
    LET categories == <<"budget", "mid-range", "luxury">>
        category == IF range_type = "all" THEN categories[((index - 1) % 3) + 1]
                    ELSE range_type
        B == budget_per_night
        \* int(num / den) for den > 0: Python's int() drops the fraction, toward zero
        int(num, den) == IF num >= 0 THEN num \div den ELSE -((-num) \div den)
        max(x, y) == IF x >= y THEN x ELSE y
    IN  IF category = "budget"
        THEN [name |-> destination \o " Budget Hostel", type |-> "hostel",
              price_per_night |-> <<max(int(B.num, B.den * 2), 20)>>,
              range_category |-> category]
        ELSE IF category = "mid-range"
        THEN [name |-> destination \o " Central Hotel", type |-> "hotel",
              price_per_night |-> <<max(int(B.num, B.den), 50)>>,
              range_category |-> category]
        ELSE [name |-> destination \o " Luxury Resort", type |-> "hotel",
              price_per_night |-> <<max(int(B.num * 18, B.den * 10), 100)>>,
              range_category |-> category]

\* AccommodationAgent._parse_recommendations
_parse_recommendations(research_text, destination, nights_count, budget_per_night, range_type) ==
    LET usable(section) == section.long /\ identified(section)
        found == SelectSeq(research_text, usable)
        extracted == [i \in 1 .. Len(found) |-> _extract_accommodation_from_text(found[i])]
        fallback(i) ==
            _create_fallback_recommendation(destination, i, budget_per_night, range_type)
        parsed_items ==
            IF Len(extracted) >= 3 THEN SubSeq(extracted, 1, 3)
            ELSE extracted \o [i \in 1 .. 3 - Len(extracted) |-> fallback(Len(extracted) + i)]
        \* item.get(key, default)
        get(value, default) == IF value = Missing THEN default ELSE value
        option == <<"Accommodation Option 1", "Accommodation Option 2",
                    "Accommodation Option 3">>
        recommendation(i) ==
            LET item == parsed_items[i]
                price == IF item.price_per_night = <<>> THEN 0 ELSE item.price_per_night[1]
            IN  [destination |-> destination,
                 name |-> get(item.name, option[i]),
                 type |-> get(item.type, "hotel"),
                 price_per_night |-> price,
                 total_cost |-> price * nights_count,
                 nights_count |-> nights_count,
                 range_category |->
                     get(item.range_category,
                         _determine_range_category(price, budget_per_night, range_type))]
    IN  [i \in 1 .. Len(parsed_items) |-> recommendation(i)]

\* AccommodationAgent.recommend_accommodations; research_result is what the
\* research call did: after an API error _research_accommodations returns None
recommend_accommodations(destination, trip_data, nights_count, range_type, research_result) ==
    LET budget_per_night ==
            [num |-> trip_data.budget, den |-> _calculate_total_nights(trip_data)]
    IN  IF research_result.raised \/ research_result.value = <<>> THEN <<>>
        ELSE _parse_recommendations(research_result.value, destination, nights_count,
                                    budget_per_night, range_type)

\* AccommodationRequest.range_type is any text; "cheap" stands for the texts
\* other than the four the comment lists
RangeTypes == {"all", "budget", "mid-range", "luxury", "cheap"}

\* the arguments of one call: a trip row, a request and what the research returned
AccommodationArgs ==
    LET Texts == UNION {[1 .. n -> Sections] : n \in 0 .. MaxSections}
    IN  [destination : {"Tokyo"},
         trip_data : {[budget |-> b, dated |-> d, nights |-> 0] :
                        b \in {-700, 0, 700}, d \in BOOLEAN},
         nights_count : {1, 3},
         range_type : RangeTypes,
         research_result : {Raise("API error")} \cup {Return(text) : text \in Texts}]

\* the state when POST /accommodations/recommend has read the trip and is
\* about to call the agent
InitAccommodation ==
    /\ supabase = "client"
    /\ jobs = <<>>
    /\ clock = 0
    /\ itinerary_items \in [TripIds -> {<<>>}]
    /\ tasks = [t \in TripIds |-> <<>>]
    /\ worker = <<>>
    /\ trace = <<>>
    /\ client = NoClient
    /\ call \in {[fn |-> "recommend_accommodations", args |-> a, returned |-> FALSE,
                   value |-> None] : a \in AccommodationArgs}

\* recommend_accommodations runs and returns
Recommend ==
    /\ call.fn = "recommend_accommodations"
    /\ ~call.returned
    /\ call' = [call EXCEPT
                   !.returned = TRUE,
                   !.value = recommend_accommodations(
                                 call.args.destination, call.args.trip_data,
                                 call.args.nights_count, call.args.range_type,
                                 call.args.research_result)]
    /\ UNCHANGED <<supabase, jobs, clock, itinerary_items, tasks, worker, trace, client>>

NextAccommodation == Recommend

SpecAccommodation == InitAccommodation /\ [][NextAccommodation]_vars

\* ------------------------------------------------ orchestrator

MaxDestinations == 2

\* TripPlanningOrchestrator._build_graph: the nodes that are added and the
\* edges between them (the name_description_agent node and its edges are
\* commented out in the source)
_build_graph ==
    [entry |-> "initialize", edges |-> [initialize |-> "finalize", finalize |-> "END"]]

\* TripPlanningOrchestrator._initialize_state
_initialize_state(state) ==
    [state EXCEPT !.completed_agents = <<"initialize">>, !.errors = <<>>,
                  !.status = "processing"]

\* TripPlanningOrchestrator._finalize_state
_finalize_state(state) ==
    [state EXCEPT !.status = IF Len(state.errors) > 0 THEN "failed" ELSE "completed",
                  !.completed_agents = Append(state.completed_agents, "finalize")]

\* the arguments of process_trip: a trip like the test script's, and a user id
OrchestratorArgs ==
    [trip_data : [destinations : UNION {[1 .. n -> {"Tokyo", "Kyoto"}] :
                                          n \in 1 .. MaxDestinations},
                  adults_count : {1, 2}, budget : {0, 3000}],
     user_id : {None, "test_user_123"}]

InitOrchestrator ==
    /\ supabase = "client"
    /\ jobs = <<>>
    /\ clock = 0
    /\ itinerary_items \in [TripIds -> {<<>>}]
    /\ tasks = [t \in TripIds |-> <<>>]
    /\ worker = <<>>
    /\ trace = <<>>
    /\ client = NoClient
    /\ call \in {[fn |-> "process_trip", args |-> a, node |-> "START", state |-> None,
                   returned |-> FALSE, value |-> None] : a \in OrchestratorArgs}

\* process_trip builds initial_state and hands it to the graph's entry point
Invoke ==
    /\ call.fn = "process_trip"
    /\ call.node = "START"
    /\ call' = [call EXCEPT
                   !.node = _build_graph.entry,
                   !.state = [trip_data |-> call.args.trip_data,
                              user_id |-> call.args.user_id,
                              trip_name |-> None, trip_description |-> None,
                              completed_agents |-> <<>>, errors |-> <<>>,
                              status |-> "pending"]]
    /\ UNCHANGED <<supabase, jobs, clock, itinerary_items, tasks, worker, trace, client>>

\* the graph runs the node it is at, writes what the node returned into the
\* state and follows the node's edge. completed_agents and errors are
\* declared Annotated[List[str], operator.add] in SuperAgentState: the graph
\* stores for them the value held plus the value returned
RunNode(node) ==
    /\ call.fn = "process_trip"
    /\ call.node = node
    /\ LET returned == IF node = "initialize" THEN _initialize_state(call.state)
                       ELSE _finalize_state(call.state)
       IN  call' = [call EXCEPT
                       !.node = _build_graph.edges[node],
                       !.state = [returned EXCEPT
                                     !.completed_agents =
                                         call.state.completed_agents \o returned.completed_agents,
                                     !.errors = call.state.errors \o returned.errors]]
    /\ UNCHANGED <<supabase, jobs, clock, itinerary_items, tasks, worker, trace, client>>

\* ainvoke has returned final_state; process_trip builds its result from it
ProcessTripReturn ==
    /\ call.fn = "process_trip"
    /\ call.node = "END"
    /\ ~call.returned
    /\ call' = [call EXCEPT
                   !.returned = TRUE,
                   !.value = [name |-> call.state.trip_name,
                              description |-> call.state.trip_description,
                              status |-> call.state.status,
                              completed_agents |-> call.state.completed_agents,
                              errors |-> call.state.errors]]
    /\ UNCHANGED <<supabase, jobs, clock, itinerary_items, tasks, worker, trace, client>>

NextOrchestrator ==
    \/ Invoke
    \/ \E node \in DOMAIN _build_graph.edges : RunNode(node)
    \/ ProcessTripReturn

SpecOrchestrator == InitOrchestrator /\ [][NextOrchestrator]_vars

\* ------------------------------------------------------------ visa agent

\* a location is the list of its comma-separated parts, each stripped:
\* "Tokyo, Japan" is <<"Tokyo", "Japan">> and the empty string is <<>>
MaxThreads == 2

\* what _check_visa_requirements can return: nothing (no key, an HTTP error,
\* an empty "data") or the service's answer, of which the primary rule's name
\* and the mandatory registration's name decide the tasks
VisaInfos ==
    {[data |-> FALSE, name |-> "", registration |-> <<>>]} \cup
    [data : {TRUE}, name : {"Visa-free", "Visa required", "eVisa", "Freedom of movement"},
     registration : {<<>>, <<"e-Arrival">>}]

\* VisaAgent._create_tasks_from_visa_info; a title is its text and the
\* destination name it is formatted with
_create_tasks_from_visa_info(destination_name, visa_info) ==
    LET rule_name == lower(visa_info.name)
        task(text) == [title |-> [text |-> text, destination |-> destination_name],
                       category |-> "visa", priority |-> "high", completed |-> FALSE]
        first == CASE rule_name = "visa-free" -> <<task("Check passport validity for")>>
                   [] rule_name = "visa required" -> <<task("Apply for visa")>>
                   [] rule_name = "evisa" -> <<task("Get eVisa for")>>
                   [] OTHER -> <<>>
        second == IF visa_info.registration # <<>>
                  THEN <<task("Complete e-Arrival for")>>
                  ELSE <<>>
    IN  first \o second

\* cache_key of _get_country_code: the text after the last comma, lower-cased
cache_key(location) == lower(location[Len(location)])

\* destination_code in seen_countries
seen_never(destination_code, seen_countries) == FALSE

seen(destination_code, seen_countries) == destination_code \in seen_countries

\* VisaAgent.generate_visa_tasks from the return of one _get_country_code call
\* to the next call (or to the return): the citizenship's code when run.i = 0,
\* the code of destination run.i otherwise
generate_visa_tasks(run, code, visa_info) ==
    LET _create_fallback_visa_task(destination) ==
            [title |-> [text |-> "Research visa requirements for",
                        destination |-> destination],
             category |-> "visa", priority |-> "high", completed |-> FALSE]
        _get_fallback_visa_tasks ==
            [n \in DOMAIN run.destinations |-> _create_fallback_visa_task(run.destinations[n])]
        destination == run.destinations[run.i]
        continue == [run EXCEPT !.i = @ + 1,
                                !.pc = IF run.i = Len(run.destinations) THEN "done"
                                       ELSE "resolve"]
        marked == [continue EXCEPT !.seen_countries = @ \cup {code}]
    IN  IF run.i = 0
        THEN IF code = None
             THEN [run EXCEPT !.tasks = _get_fallback_visa_tasks, !.pc = "done"]
             ELSE [continue EXCEPT !.passport_code = code]
        ELSE IF code = None THEN continue
        ELSE IF seen(code, run.seen_countries) THEN continue
        ELSE IF code = run.passport_code THEN marked
        ELSE [marked EXCEPT
                 !.queries = Append(@, <<run.passport_code, code>>),
                 !.tasks = @ \o (IF visa_info.data
                                 THEN _create_tasks_from_visa_info(destination, visa_info)
                                 ELSE <<_create_fallback_visa_task(destination)>>)]

\* the trips and citizenships generate_visa_tasks is called with
VisaArgs ==
    [destinations : UNION {[1 .. n -> {<<"Tokyo", "Japan">>, <<"Kyoto", "Japan">>,
                                        <<"Palau">>, <<"jp">>, <<>>}] :
                             n \in 0 .. MaxDestinations},
     user_citizenship : {<<"Japan">>, <<"US">>, <<"Atlantis">>}]

\* a call of generate_visa_tasks that has not run yet
VisaRun(a) ==
    [destinations |-> a.destinations, user_citizenship |-> a.user_citizenship,
     pc |-> "resolve", i |-> 0, cache_key |-> "", passport_code |-> None,
     seen_countries |-> {}, tasks |-> <<>>, queries |-> <<>>]

\* VisaAgent.__init__ and one call of generate_visa_tasks
InitVisa ==
    /\ supabase = "client"
    /\ jobs = <<>>
    /\ clock = 0
    /\ itinerary_items \in [TripIds -> {<<>>}]
    /\ tasks = [t \in TripIds |-> <<>>]
    /\ worker = <<>>
    /\ trace = <<>>
    /\ client = NoClient
    /\ call \in {[fn |-> "generate_visa_tasks",
                   _country_code_cache |-> [k \in {"japan", "palau", "atlantis"} |-> <<>>],
                   lookups |-> <<>>, resolved |-> <<>>,
                   runs |-> <<VisaRun(a)>>] : a \in VisaArgs}

\* the singleton agent with one call of generate_visa_tasks in each task
\* job's thread
InitVisaShared ==
    /\ supabase = "client"
    /\ jobs = <<>>
    /\ clock = 0
    /\ itinerary_items \in [TripIds -> {<<>>}]
    /\ tasks = [t \in TripIds |-> <<>>]
    /\ worker = <<>>
    /\ trace = <<>>
    /\ client = NoClient
    /\ call \in {[fn |-> "generate_visa_tasks",
                   _country_code_cache |-> [k \in {"japan", "palau", "atlantis"} |-> <<>>],
                   lookups |-> <<>>, resolved |-> <<>>,
                   runs |-> r] :
                 r \in [1 .. MaxThreads ->
                          {VisaRun([destinations |-> <<d>>, user_citizenship |-> <<"US">>]) :
                             d \in {<<"Palau">>, <<"Tokyo", "Japan">>}}]}

\* VisaAgent._get_country_code up to its return or up to the request that
\* _get_country_code_from_api sends, and on a return the caller's next steps
_get_country_code(r) ==
    /\ call.fn = "generate_visa_tasks"
    /\ r \in DOMAIN call.runs
    /\ call.runs[r].pc = "resolve"
    /\ LET run == call.runs[r]
           location == IF run.i = 0 THEN run.user_citizenship ELSE run.destinations[run.i]
           upper(text) == IF text = "jp" THEN "JP" ELSE text
           return(code) ==
               \E visa_info \in VisaInfos :
                   call' = [call EXCEPT
                               !.runs[r] = generate_visa_tasks(run, code, visa_info),
                               !.resolved = Append(@, [location |-> location,
                                                       value |-> code])]
       IN  IF location = <<>> THEN return(None)
           ELSE IF Len(location) = 1 /\ location[1] \in {"jp", "JP", "US"}
           THEN return(upper(location[1]))
           ELSE IF call._country_code_cache[cache_key(location)] # <<>>
           THEN return(call._country_code_cache[cache_key(location)][1])
           ELSE call' = [call EXCEPT
                            !.runs[r].pc = "lookup",
                            !.runs[r].cache_key = cache_key(location),
                            !.lookups = Append(@, cache_key(location))]
    /\ UNCHANGED <<supabase, jobs, clock, itinerary_items, tasks, worker, trace, client>>

\* _get_country_code_from_api returns (a code, or None when the service finds
\* nothing or fails); _get_country_code falls back to LOCATION_TO_COUNTRY_CODE,
\* stores the result and returns it, and the caller takes its next steps
LookupReturn(r) ==
    /\ call.fn = "generate_visa_tasks"
    /\ r \in DOMAIN call.runs
    /\ call.runs[r].pc = "lookup"
    /\ LET run == call.runs[r]
           location == IF run.i = 0 THEN run.user_citizenship ELSE run.destinations[run.i]
           found == CASE run.cache_key = "japan" -> {"JP", None}
                      [] run.cache_key = "palau" -> {"PW", None}
                      [] OTHER -> {None}
           LOCATION_TO_COUNTRY_CODE == IF run.cache_key = "japan" THEN "JP" ELSE None
       IN  \E answer \in found, visa_info \in VisaInfos :
               LET code == IF answer # None THEN answer ELSE LOCATION_TO_COUNTRY_CODE
               IN  call' = [call EXCEPT
                               !._country_code_cache[run.cache_key] = <<code>>,
                               !.runs[r] = generate_visa_tasks(run, code, visa_info),
                               !.resolved = Append(@, [location |-> location,
                                                       value |-> code])]
    /\ UNCHANGED <<supabase, jobs, clock, itinerary_items, tasks, worker, trace, client>>

NextVisa ==
    \/ \E r \in 1 .. MaxThreads : _get_country_code(r)
    \/ \E r \in 1 .. MaxThreads : LookupReturn(r)

SpecVisa == InitVisa /\ [][NextVisa]_vars

SpecVisaShared == InitVisaShared /\ [][NextVisa]_vars

\* ------------------------------------------------------------ extraction

MaxStatements == 2
MaxParsed == 2

\* research texts as Perplexity returns them, in pieces: a vaccine's name, what
\* is said of it, and between two statements a blank, a line break or a
\* passage of 200 characters that names no vaccine and no such word
ResearchTexts ==
    LET statement == {<<v, w>> : v \in {"Yellow Fever", "Typhoid"},
                                 w \in {"is recommended", "is required"}}
        between == {" ", "\n", "(200 characters)"}
        texts[n \in 1 .. MaxStatements] ==
            IF n = 1 THEN statement
            ELSE texts[n - 1] \cup
                 {t \o <<b>> \o s : t \in texts[n - 1], b \in between, s \in statement}
    IN  texts[MaxStatements]

\* VaccineAgent._create_tasks_from_research with _is_vaccine_required and the
\* title and category of _create_vaccine_task
_create_tasks_from_research(research_text, destinations) ==
    LET vaccine_keywords == <<"Yellow Fever", "Typhoid">>
        \* the match of \bvaccine\b.{0,200} that starts at piece p: the pieces
        \* after it on its line, as far as 200 characters reach
        match(p) == {q \in p + 1 .. Len(research_text) :
                        \A k \in p + 1 .. q - 1 :
                            research_text[k] \notin {"\n", "(200 characters)"}}
        _is_vaccine_required(vaccine) ==
            \E p \in DOMAIN research_text :
                /\ lower(research_text[p]) = lower(vaccine)
                /\ \E q \in match(p) : research_text[q] = "is required"
        mentioned(vaccine) ==
            \E p \in DOMAIN research_text : lower(research_text[p]) = lower(vaccine)
        _create_vaccine_task(vaccine) ==
            [title |-> IF vaccine = "Typhoid" THEN "Get required Typhoid vaccine"
                       ELSE "Get required Yellow Fever vaccine",
             category |-> "health", priority |-> "high", completed |-> FALSE]
        required == SelectSeq(vaccine_keywords,
                              LAMBDA v : mentioned(v) /\ _is_vaccine_required(v))
    IN  [n \in DOMAIN required |-> _create_vaccine_task(required[n])]

InitExtraction ==
    /\ supabase = "client"
    /\ jobs = <<>>
    /\ clock = 0
    /\ itinerary_items \in [TripIds -> {<<>>}]
    /\ tasks = [t \in TripIds |-> <<>>]
    /\ worker = <<>>
    /\ trace = <<>>
    /\ client = NoClient
    /\ \/ call \in {[fn |-> "_create_tasks_from_research",
                      args |-> [research_text |-> t, destinations |-> <<"Tokyo, Japan">>],
                      returned |-> FALSE, raised |-> FALSE, value |-> <<>>] :
                    t \in ResearchTexts}
       \/ call \in {[fn |-> "_parse_itinerary_response", args |-> [json |-> v],
                      returned |-> FALSE, raised |-> FALSE, value |-> <<>>] :
                    v \in JsonValues(MaxParsed)}
       \/ call \in {[fn |-> "_parse_single_day_response",
                      args |-> [json |-> v, trip_data |-> TripRow(1, 1, d, None),
                                day_number |-> 1],
                      returned |-> FALSE, raised |-> FALSE, value |-> <<>>] :
                    v \in JsonValues(MaxParsed), d \in DestinationLists}
       \/ call \in {[fn |-> "_parse_task_response", args |-> [json |-> v],
                      returned |-> FALSE, raised |-> FALSE, value |-> <<>>] :
                    v \in TaskJsonValues(MaxParsed)}

\* the routine runs on its arguments and returns or raises
Extract ==
    /\ ~call.returned
    /\ \/ /\ call.fn = "_create_tasks_from_research"
          /\ call' = [call EXCEPT
                         !.returned = TRUE,
                         !.value = _create_tasks_from_research(call.args.research_text,
                                                               call.args.destinations)]
       \/ /\ call.fn = "_parse_itinerary_response"
          /\ LET result == _parse_itinerary_response(call.args.json)
             IN  call' = [call EXCEPT !.returned = TRUE, !.raised = result.raised,
                                      !.value = result.value]
       \/ /\ call.fn = "_parse_single_day_response"
          /\ LET result == _parse_single_day_response(call.args.json, call.args.trip_data,
                                                      call.args.day_number)
             IN  call' = [call EXCEPT !.returned = TRUE, !.raised = result.raised,
                                      !.value = result.value]
       \/ /\ call.fn = "_parse_task_response"
          /\ call' = [call EXCEPT !.returned = TRUE,
                                  !.value = _parse_task_response(call.args.json)]
    /\ UNCHANGED <<supabase, jobs, clock, itinerary_items, tasks, worker, trace, client>>

SpecExtraction == InitExtraction /\ [][Extract]_vars

\* ------------------------------------------------- the service singleton

\* the module's global _service_instance (0: None, else the n-th JobService
\* constructed), each instance's _jobs, and the request handlers that
\* FastAPI's thread pool is resolving Depends(get_job_service) for
InitSingleton ==
    /\ supabase = "client"
    /\ jobs = <<>>
    /\ clock = 0
    /\ itinerary_items \in [TripIds -> {<<>>}]
    /\ tasks = [t \in TripIds |-> <<>>]
    /\ worker = <<>>
    /\ trace = <<>>
    /\ client = NoClient
    /\ call = [fn |-> "get_job_service", _service_instance |-> 0, _jobs |-> <<>>,
               created |-> 0, polled |-> <<>>,
               threads |-> [t \in 1 .. MaxThreads |->
                              [pc |-> "idle", job_id |-> 0, job_service |-> 0]]]

\* a request arrives (a POST: job_id 0, or a poll for a job some POST has
\* answered with) and get_job_service tests `_service_instance is None`;
\* an instance that is there is returned
get_job_service(t, job_id) ==
    /\ call.fn = "get_job_service"
    /\ call.threads[t].pc = "idle"
    /\ IF job_id = 0
       THEN call.created + Cardinality({u \in 1 .. MaxThreads :
                                           /\ call.threads[u].pc # "idle"
                                           /\ call.threads[u].job_id = 0}) < MaxJobs
       ELSE job_id <= call.created /\ Len(call.polled) < MaxPolls
    /\ call' = [call EXCEPT !.threads[t] =
                   IF call._service_instance = 0
                   THEN [pc |-> "construct", job_id |-> job_id, job_service |-> 0]
                   ELSE [pc |-> "handle", job_id |-> job_id,
                         job_service |-> call._service_instance]]
    /\ UNCHANGED <<supabase, jobs, clock, itinerary_items, tasks, worker, trace, client>>

\* _service_instance = JobService() in a thread that found None, and the
\* return of the global
Construct(t) ==
    /\ call.fn = "get_job_service"
    /\ call.threads[t].pc = "construct"
    /\ call' = [call EXCEPT !._jobs = Append(@, {}),
                            !._service_instance = Len(call._jobs) + 1,
                            !.threads[t].pc = "handle",
                            !.threads[t].job_service = Len(call._jobs) + 1]
    /\ UNCHANGED <<supabase, jobs, clock, itinerary_items, tasks, worker, trace, client>>

\* the handler runs with the service it was given: POST creates a job in that
\* instance's _jobs, GET /status/{job_id} looks job_id up there
Handle(t) ==
    /\ call.fn = "get_job_service"
    /\ call.threads[t].pc = "handle"
    /\ LET job_id == call.threads[t].job_id
           job_service == call.threads[t].job_service
           idle == [pc |-> "idle", job_id |-> 0, job_service |-> 0]
       IN  call' = IF job_id = 0
                   THEN [call EXCEPT !.created = @ + 1,
                                     !._jobs[job_service] = @ \cup {call.created + 1},
                                     !.threads[t] = idle]
                   ELSE [call EXCEPT !.polled = Append(@, [job_id |-> job_id,
                                                           found |-> job_id \in call._jobs[job_service]]),
                                     !.threads[t] = idle]
    /\ UNCHANGED <<supabase, jobs, clock, itinerary_items, tasks, worker, trace, client>>

SpecSingleton ==
    InitSingleton /\ [][\/ \E t \in 1 .. MaxThreads, j \in PollIds : get_job_service(t, j)
                        \/ \E t \in 1 .. MaxThreads : Construct(t)
                        \/ \E t \in 1 .. MaxThreads : Handle(t)]_vars

\* ------------------------------------------------------------ properties

\* the update_job_status calls job j's worker has issued, in order
updates(j) == SelectSeq(trace[j], LAMBDA e : e.op = "update")
IsGen(j) == jobs[j].job_type = "itinerary_generation"
IsMod(j) == jobs[j].job_type = "itinerary_modification"
IsTask(j) == jobs[j].job_type = "task_generation"

\* C1: once an update has made a job completed or failed, no later update of
\* that job (any caller, any arguments) changes its status, progress, result or
\* error, and get_job_status keeps returning the terminal status.
C1_TerminalIsFinal ==
    [][\A j \in DOMAIN jobs :
          jobs[j].status \in Terminal =>
             /\ get_job_status(j)'.status = jobs[j].status
             /\ jobs'[j].progress = jobs[j].progress
             /\ jobs'[j].result = jobs[j].result
             /\ jobs'[j].error = jobs[j].error]_vars

\* C2: the step that makes a job failed leaves a non-empty error and the
\* progress the job had reached (it is not reset to 0).
C2_FailureKeepsProgress ==
    [][\A j \in DOMAIN jobs :
          (jobs[j].status # "failed" /\ jobs'[j].status = "failed") =>
             /\ jobs'[j].error \notin {None, ""}
             /\ jobs'[j].progress = jobs[j].progress]_vars

\* C3: the statuses a worker writes are one or more "processing" followed by at
\* most one terminal status, which is the last write and is there once the
\* worker has returned; the record shows "pending" until the first write and
\* the last written status afterwards.
C3_StatusSequence ==
    \A j \in DOMAIN jobs :
        LET ws == updates(j)
        IN  /\ \A i \in 1 .. Len(ws) :
                  \/ ws[i].outcome = "processing" /\ (i < Len(ws) \/ worker[j].pc # "done")
                  \/ ws[i].outcome \in Terminal /\ i = Len(ws) /\ i > 1
            /\ jobs[j].status = IF ws = <<>> THEN "pending" ELSE ws[Len(ws)].outcome
            /\ worker[j].pc = "done" => ws # <<>>

C3_Witness ==
    \E j \in DOMAIN jobs :
        /\ jobs[j].status = "completed"
        /\ Len(updates(j)) >= 4
        /\ updates(j)[1].outcome = "processing"

\* C4: result is set exactly when the status is completed, error exactly when
\* it is failed.
C4_ResultAndError ==
    \A j \in DOMAIN jobs :
        /\ jobs[j].result # NoResult <=> jobs[j].status = "completed"
        /\ jobs[j].error # None <=> jobs[j].status = "failed"

C4_Witness ==
    \E j \in DOMAIN jobs :
        /\ jobs[j].status = "failed"
        /\ jobs[j].error = "Trip not found"
        /\ jobs[j].result = NoResult

\* C5: every progress a worker writes is in 0..100, and of two consecutive
\* writes with status processing the later progress is not the smaller one;
\* for the day-by-day pipeline with any day count up to MaxNumDays.
C5_ProgressMonotonic ==
    \A j \in DOMAIN jobs :
        LET ws == updates(j)
        IN  /\ \A i \in 1 .. Len(ws) : ws[i].n \in 0 .. 100
            /\ jobs[j].progress \in 0 .. 100
            /\ \A i \in 2 .. Len(ws) :
                  (ws[i].outcome = "processing" /\ ws[i - 1].outcome = "processing")
                      => ws[i].n >= ws[i - 1].n

C5_Witness ==
    \E j \in DOMAIN jobs :
        /\ IsGen(j)
        /\ jobs[j].status = "completed"
        /\ jobs[j].result.value > 80
        /\ Len(updates(j)) > 160

\* the calls of kind op that job j's worker has made with the given outcome
has(j, op, outcome) == \E i \in 1 .. Len(trace[j]) : trace[j][i].op = op /\ trace[j][i].outcome = outcome
\* the step in which job j becomes failed
fails(j) == jobs[j].status # "failed" /\ jobs'[j].status = "failed"

\* C6: when a modification job fails at any point up to the end of the
\* delete-then-insert, including a failing insert after the delete has gone
\* through, the trip's stored items are those it had before the job started.
C6_FailureKeepsOriginalItems ==
    [][\A j \in DOMAIN jobs :
          (IsMod(j) /\ fails(j)) =>
              itinerary_items'[jobs[j].trip_id] =
                  IF has(j, "delete", "ok")
                  THEN worker[j].existing_items
                  ELSE itinerary_items[jobs[j].trip_id]]_vars

\* C7: a modification job whose text-generation call failed has issued no
\* delete of the trip's items, and once its worker has returned it is failed.
C7_GenerationFailureFailsJob ==
    \A j \in DOMAIN jobs :
        (IsMod(j) /\ has(j, "generate", "raise")) =>
            /\ ~ \E i \in 1 .. Len(trace[j]) : trace[j][i].op = "delete"
            /\ worker[j].pc = "done" => jobs[j].status = "failed"

\* C8: a day-by-day job over a trip of N computed days whose storage calls all
\* succeeded ends completed with progress 100 and with at least one item
\* persisted for each of the days 1..N, whatever the model answered.
C8_EveryDayPersisted ==
    \A j \in DOMAIN jobs :
        (/\ IsGen(j)
         /\ worker[j].pc = "done"
         /\ has(j, "num_days", "ok")
         /\ ~ has(j, "insert", "raise")) =>
            /\ jobs[j].status = "completed"
            /\ jobs[j].progress = 100
            /\ \A i \in 1 .. Len(trace[j]) :
                  trace[j][i].op = "num_days" =>
                     \A d \in 1 .. trace[j][i].n :
                        \E k \in 1 .. Len(itinerary_items[jobs[j].trip_id]) :
                            /\ itinerary_items[jobs[j].trip_id][k].day_number = d
                            /\ itinerary_items[jobs[j].trip_id][k].title # "Old plan"

\* C9: a day-by-day job only ever appends to the trip's stored items; the step
\* in which it fails changes no stored item and ends the worker, and a worker
\* that has ended generates and persists nothing more.
C9_NoRollback ==
    [][\A j \in DOMAIN jobs :
          IsGen(j) =>
             LET old == itinerary_items[jobs[j].trip_id]
                 new == itinerary_items'[jobs[j].trip_id]
             IN  /\ Len(new) >= Len(old)
                 /\ SubSeq(new, 1, Len(old)) = old
                 /\ fails(j) => (new = old /\ worker'[j].pc = "done")
                 /\ worker[j].pc = "done" =>
                        (new = old /\ trace'[j] = trace[j] /\ jobs'[j] = jobs[j])]_vars

C9_Witness ==
    \E j \in DOMAIN jobs :
        /\ IsGen(j)
        /\ jobs[j].status = "failed"
        /\ \E i \in 1 .. Len(trace[j]) : trace[j][i] = Ev("insert", "ok", 1)
        /\ trace[j][Len(trace[j]) - 2] = Ev("insert", "raise", 2)
        /\ ~ \E i \in 1 .. Len(trace[j]) : trace[j][i].op \in {"generate", "insert"} /\ trace[j][i].n > 2
        /\ \E k \in 1 .. Len(itinerary_items[jobs[j].trip_id]) :
              /\ itinerary_items[jobs[j].trip_id][k].day_number = 1
              /\ itinerary_items[jobs[j].trip_id][k].title = "Explore"

\* C10: every job whose worker has been started eventually is completed or
\* failed, and no worker has returned while its job is pending or processing.
C10_JobsTerminate ==
    /\ \A j \in JobIds :
          (j \in DOMAIN worker) ~> (j \in DOMAIN jobs /\ jobs[j].status \in Terminal)
    /\ [](\A j \in DOMAIN worker : worker[j].pc = "done" => jobs[j].status \in Terminal)

C10_Witness ==
    \E j \in DOMAIN worker :
        /\ worker[j].pc = "done"
        /\ jobs[j].status = "completed"
        /\ IsTask(j)

\* the raising calls a worker makes inside a try block of its own
\* (tasks.py: the citizenship lookup) or that the agent handles (the model
\* call, and in task_agent.py the visa and the vaccine specialist)
HandledInside == {"generate", "select_users", "visa", "vaccine"}

\* the handler's part of C11: its entry is followed by one update to failed
\* carrying str(e) as error, after which the coroutine has returned
handler_ok(j) ==
    LET t == trace[j]
    IN  /\ \A i \in 1 .. Len(t) :
              t[i].op = "except" =>
                  /\ i = Len(t) - 1
                  /\ t[Len(t)] = Ev("update", "failed", 0)
                  /\ worker[j].pc = "done"
                  /\ jobs[j].status = "failed"
                  /\ jobs[j].error = t[i].outcome
        /\ jobs[j].status = "failed" => \E i \in 1 .. Len(t) : t[i].op = "except"

\* C11 as stated: every exception raised by a call the worker makes, at any
\* step, enters the worker's outermost handler, which marks the job failed
\* with str(e) and returns.
C11_AnyExceptionFailsJob ==
    \A j \in DOMAIN jobs :
        /\ \A i \in 1 .. Len(trace[j]) :
              (trace[j][i].outcome = "raise" /\ trace[j][i].op # "generate") =>
                  i < Len(trace[j]) /\ trace[j][i + 1].op = "except"
        /\ handler_ok(j)

\* C11 amended: every exception but those handled inside (the best-effort
\* citizenship lookup, the agent's own fallback) enters the worker's outermost
\* handler, which marks the job failed with str(e) and returns.
C11_HandlerCatchesAll ==
    \A j \in DOMAIN jobs :
        /\ \A i \in 1 .. Len(trace[j]) :
              (trace[j][i].outcome = "raise" /\ trace[j][i].op \notin HandledInside) =>
                  i < Len(trace[j]) /\ trace[j][i + 1].op = "except"
        /\ handler_ok(j)

C11_Witness ==
    \E j \in DOMAIN jobs :
        /\ IsGen(j)
        /\ worker[j].pc = "done"
        /\ jobs[j].error = "list index out of range"
        /\ has(j, "generate", "raise")

\* record r is what the k-th update of job j's worker wrote as a whole (k = 0:
\* what create_job wrote)
whole(r, j, k) ==
    IF k = 0
    THEN /\ r.status = "pending" /\ r.progress = 0 /\ r.message = Msg("Job created", 0, 0)
         /\ r.result = NoResult /\ r.error = None
    ELSE LET w == updates(j)[k]
         IN  /\ r.status = w.outcome
             /\ r.progress = w.n
             /\ r.result # NoResult <=> w.outcome = "completed"
             /\ r.error # None <=> w.outcome = "failed"
             /\ r.message = FailMessage(jobs[j].job_type) <=> w.outcome = "failed"

\* C12: what a poll returns is the record as one create or update call wrote
\* it, never a mix of two, and that call is the last one completed when the
\* poll's get began or a later one.
C12_PollSeesWholeRecentRecord ==
    \A i \in 1 .. Len(client.polled) :
        LET p == client.polled[i]
        IN  p.response # NoJob =>
               \E k \in p.began .. Len(updates(p.job_id)) : whole(p.response, p.job_id, k)

C12_Witness ==
    \E i \in 1 .. Len(client.polled) :
        LET p == client.polled[i]
        IN  /\ p.response # NoJob
            /\ p.began >= 1
            /\ Len(updates(p.job_id)) > p.began
            /\ p.response.status = "processing"
            /\ p.response.progress > updates(p.job_id)[p.began].n

\* C13: the response of the handler that created a job reports status pending
\* and progress 0.
C13_ResponseIsPending ==
    \A j \in DOMAIN client.response :
        client.response[j].status = "pending" /\ client.response[j].progress = 0

\* C14: for an id no job holds, get_job_status returns None, and an
\* update_job_status call with any arguments leaves the registry as it was.
C14_UnknownIdIsNoOp ==
    [][\A id \in PollIds \ DOMAIN jobs :
          /\ get_job_status(id) = NoJob
          /\ \A a \in UpdateArgs : RegUpdate(id, a) => jobs' = jobs]_vars

C14_Witness ==
    /\ client.unknown_update
    /\ DOMAIN jobs # {}
    /\ \E id \in PollIds \ DOMAIN jobs : get_job_status(id) = NoJob

\* C15: create_job stores its record under an id no job held; the record has
\* status pending, progress 0, message "Job created", no result, no error and
\* created_at = updated_at = now; every record already held stays as it was.
C15_CreateIsFresh ==
    [][\A t \in TripIds, k \in JobTypes :
          RegCreate(t, k) =>
             \E id \in DOMAIN jobs' \ DOMAIN jobs :
                /\ DOMAIN jobs' = DOMAIN jobs \cup {id}
                /\ \A o \in DOMAIN jobs : jobs'[o] = jobs[o]
                /\ get_job_status(id)' =
                      [job_id |-> id, trip_id |-> t, job_type |-> k, status |-> "pending",
                       progress |-> 0, message |-> Msg("Job created", 0, 0),
                       result |-> NoResult, error |-> None,
                       created_at |-> clock, updated_at |-> clock]]_vars

C15_Witness ==
    \E a, b \in DOMAIN jobs :
        /\ a # b
        /\ jobs[a].status = "completed"
        /\ jobs[a].updated_at < jobs[b].created_at
        /\ jobs[b].status = "pending"
        /\ jobs[b].created_at = jobs[b].updated_at

\* C16: the rows a day-by-day job adds to the table are added in the save step
\* of a day d in 1..N, and each of them has day_number d, whatever day_number
\* the model's answer carried.
C16_DayNumberIsTheDay ==
    [][\A j \in DOMAIN jobs :
          IsGen(j) =>
             LET old == itinerary_items[jobs[j].trip_id]
                 new == itinerary_items'[jobs[j].trip_id]
             IN  \A i \in Len(old) + 1 .. Len(new) :
                    /\ worker[j].pc = "save"
                    /\ worker[j].day \in 1 .. worker[j].num_days
                    /\ new[i].day_number = worker[j].day]_vars

C16_Witness ==
    \E j \in DOMAIN jobs :
        /\ IsGen(j)
        /\ jobs[j].status = "completed"
        /\ \E i \in 1 .. Len(itinerary_items[jobs[j].trip_id]) :
              /\ itinerary_items[jobs[j].trip_id][i].title = "Visit temple"
              /\ itinerary_items[jobs[j].trip_id][i].day_number = 2

\* the number of tasks a specialist handed to the merge of job j
produced(j, op) ==
    LET es == SelectSeq(trace[j], LAMBDA e : e.op = op) IN IF es = <<>> THEN 0 ELSE es[1].n
merged(j) == IsTask(j) /\ worker[j].pc \in {"update70", "save", "complete"}

\* C17: in the list task generation returns, when the entry-requirement
\* specialist produced at least one task no general-generator task has category
\* visa (in any letter case), and when the health specialist produced at least
\* one task no general-generator task has category health with a title that
\* mentions vaccine, vaccination or immunization.
C17_SpecialistsReplaceGeneral ==
    \A j \in DOMAIN jobs :
        merged(j) =>
            LET general == SubSeq(worker[j].tasks,
                                  produced(j, "visa") + produced(j, "vaccine") + 1,
                                  Len(worker[j].tasks))
            IN  /\ worker[j].tasks =
                      SubSeq(worker[j].tasks, 1, produced(j, "visa") + produced(j, "vaccine"))
                          \o general
                /\ produced(j, "visa") > 0 =>
                      \A i \in 1 .. Len(general) : lower(general[i].category) # "visa"
                /\ produced(j, "vaccine") > 0 =>
                      \A i \in 1 .. Len(general) :
                          ~(lower(general[i].category) = "health"
                                /\ mentions_vaccine(general[i].title))

\* a model answer with a Visa-category task was merged after a visa
\* specialist's task, and the general part is left empty by the filter
C17_Witness ==
    \E j \in DOMAIN jobs :
        /\ merged(j)
        /\ has(j, "generate", "ok")
        /\ produced(j, "visa") = 1
        /\ worker[j].tasks = <<Task("Apply for Japan visa", "visa")>>

\* C18: the accommodation extraction, given research text from which no record
\* can be parsed, returns exactly 3 records, each with a non-negative
\* price_per_night and a range_category among budget, mid-range and luxury,
\* for every range_type the endpoint accepts.
C18_GarbageGivesThreeValid ==
    LET research_result == call.args.research_result
        \* a text no section of which is long enough and yields an item
        garbage ==
            /\ ~research_result.raised
            /\ research_result.value # <<>>
            /\ \A i \in 1 .. Len(research_result.value) :
                  ~research_result.value[i].long \/ ~identified(research_result.value[i])
    IN  (call.fn = "recommend_accommodations" /\ call.returned /\ garbage) =>
            /\ Len(call.value) = 3
            /\ \A i \in 1 .. Len(call.value) :
                  /\ call.value[i].price_per_night >= 0
                  /\ call.value[i].range_category \in {"budget", "mid-range", "luxury"}

\* C19: process_trip on a valid trip ends with status completed and a
\* non-empty generated trip name in its result, which is what the authors'
\* test script checks to decide pass or fail.
C19_ProcessTripNamesTheTrip ==
    (call.fn = "process_trip" /\ call.returned) =>
        /\ call.value.status = "completed"
        /\ call.value.name \notin {None, ""}

\* C20: for every day count N and every day d in 1..N (the message "Day d of N
\* complete" carries them as a and b), the progress written by
\* the day-by-day pipeline after day d is persisted equals 10 + (d*80) div N,
\* the integer division being that of the product.
C20_ProgressAfterDay ==
    \A j \in DOMAIN jobs :
        (IsGen(j) /\ jobs[j].message.text = "Day complete") =>
            jobs[j].progress = 10 + (jobs[j].message.a * 80) \div jobs[j].message.b

\* C21: within one day-by-day job, for each day d the "Generating Day d"
\* update precedes the generation call for day d, which precedes the insert of
\* day d's items, which precedes the "Day d complete" update, which precedes
\* anything of day d+1; the completed update is written only after day N's
\* items are stored.  The calls a job has issued after computing N are, in
\* order and up to the point an exception is handled: for d = 1..N the four
\* calls of day d, then the completed update.
C21_DayStepsInOrder ==
    \A j \in DOMAIN jobs :
        IsGen(j) =>
            LET t == trace[j]
                at == {i \in 1 .. Len(t) : t[i].op = "num_days" /\ t[i].outcome = "ok"}
                stops == {i \in 1 .. Len(t) : t[i].op \in {"except", "summary"}}
            IN  \A s \in at :
                    LET N == t[s].n
                        last == IF stops = {} THEN Len(t)
                                ELSE (CHOOSE i \in stops : \A k \in stops : i <= k) - 1
                    IN  /\ last - s <= 4 * N + 1
                        /\ \A i \in s + 1 .. last :
                              LET k == i - s - 1
                                  d == (k \div 4) + 1
                                  r == k % 4
                              IN  IF k = 4 * N
                                  THEN t[i] = Ev("update", "completed", 100)
                                  ELSE /\ r = 0 => t[i] = Ev("update", "processing",
                                                              progress_before(d, N))
                                       /\ r = 1 => t[i].op = "generate" /\ t[i].n = d
                                       /\ r = 2 => t[i].op = "insert" /\ t[i].n = d
                                       /\ r = 3 => t[i] = Ev("update", "processing",
                                                              progress_after(d, N))

\* a two-day job has completed: both days went through their four calls
C21_Witness ==
    \E j \in DOMAIN jobs :
        /\ IsGen(j)
        /\ jobs[j].status = "completed"
        /\ has(j, "insert", "ok")
        /\ \E i \in 1 .. Len(trace[j]) : trace[j][i] = Ev("insert", "ok", 2)
        /\ trace[j][Len(trace[j])] = Ev("update", "completed", 100)

\* C22: for every trip, in every reachable state of storage no two stored
\* itinerary items of that trip share the same (day_number, order_index),
\* under any sequence or interleaving of generation and modification jobs
\* launched for that trip.
C22_ItemOrderUnique ==
    \A t \in TripIds :
        \A a, b \in 1 .. Len(itinerary_items[t]) :
            a # b =>
                \/ itinerary_items[t][a].day_number # itinerary_items[t][b].day_number
                \/ itinerary_items[t][a].order_index # itinerary_items[t][b].order_index

\* C23: a reader of a trip's itinerary items that runs concurrently with a
\* modification job observes either the complete pre-modification item set or
\* the complete replacement set, never an empty or partial set in between:
\* from the moment the job has its replacement set until it has stored it, the
\* table holds one of the two sets.
C23_ReaderSeesOldOrNew ==
    \A j \in DOMAIN jobs :
        (IsMod(j) /\ worker[j].pc \in {"delete", "insert"}) =>
            \/ itinerary_items[worker[j].trip_id] = worker[j].existing_items
            \/ itinerary_items[worker[j].trip_id] = worker[j].modified_items

\* C24: every batch of itinerary items written by the generation pipeline (one
\* day's items) or by the modification pipeline (the full replacement set)
\* carries order_index values that are exactly 0, 1, ..., k-1 in batch order,
\* whatever order_index values the text-generation output contained.
C24_BatchOrderIsDense ==
    [][\A t \in TripIds :
          LET old == Len(itinerary_items[t])
          IN  Len(itinerary_items'[t]) > old =>
                  \A i \in 1 .. Len(itinerary_items'[t]) - old :
                      itinerary_items'[t][old + i].order_index = i - 1]_vars

\* C25: the day count N that the day-by-day pipeline computes from the trip's
\* start and end dates is at least 1 for every trip record it processes, so
\* every job that completes reports result num_days >= 1 and has run at least
\* one day step.
C25_AtLeastOneDay ==
    \A j \in DOMAIN jobs :
        IsGen(j) =>
            /\ \A i \in 1 .. Len(trace[j]) :
                  (trace[j][i].op = "num_days" /\ trace[j][i].outcome = "ok")
                      => trace[j][i].n >= 1
            /\ jobs[j].status = "completed" =>
                  /\ jobs[j].result.value >= 1
                  /\ \E i \in 1 .. Len(trace[j]) : trace[j][i].op = "generate"

\* C26: an exception in any one of the three sub-generations of generate_tasks
\* does not abort the others: the returned list holds the tasks of every
\* specialist that succeeded, entry-requirement tasks first and health tasks
\* second, followed by the general tasks or, when the general text-generation
\* call fails, by the fixed fallback tasks (flights, insurance, one
\* accommodation task per destination).
C26_SubGenerationsAreIndependent ==
    \A j \in DOMAIN jobs :
        merged(j) =>
            LET t == worker[j].tasks
                nv == produced(j, "visa")
                nh == produced(j, "vaccine")
                rest == SubSeq(t, nv + nh + 1, Len(t))
                rooms == SelectSeq(rest, LAMBDA x : x.category = "accommodation")
            IN  /\ Len(t) >= nv + nh
                /\ (has(j, "visa", "ok") /\ nv = 1)
                      => t[1] = Task("Apply for Japan visa", "visa")
                /\ (has(j, "vaccine", "ok") /\ nh = 1)
                      => t[nv + 1] = Task("Get Yellow Fever vaccination", "health")
                /\ (has(j, "visa", "raise") \/ has(j, "visa", "skipped")) => nv = 0
                /\ has(j, "vaccine", "raise") => nh = 0
                /\ has(j, "generate", "raise") =>
                      /\ rest = _get_fallback_tasks(worker[j].trip_data)
                      /\ rest[1] = Task("Book flights", "general")
                      /\ rest[2] = Task("Get travel insurance", "general")
                      /\ Len(rooms) = Len(worker[j].trip_data.destinations)

\* the entry-requirement specialist raised, the health specialist delivered
\* and the model call failed: health task, then the fallback tasks
C26_Witness ==
    \E j \in DOMAIN jobs :
        /\ merged(j)
        /\ has(j, "visa", "raise")
        /\ has(j, "vaccine", "ok")
        /\ has(j, "generate", "raise")
        /\ worker[j].trip_data.destinations # <<>>
        /\ worker[j].tasks = <<Task("Get Yellow Fever vaccination", "health")>>
                                \o _get_fallback_tasks(worker[j].trip_data)

\* C27: if the citizenship lookup of a task-generation job raises or finds no
\* value, the job does not fail for that reason: the entry-requirement
\* specialist is never invoked in that run, and the job proceeds through
\* generation and persistence to completed (it fails only when the insert of
\* the tasks raises).
C27_LookupFailureIsNotFatal ==
    \A j \in DOMAIN jobs :
        (IsTask(j) /\ (has(j, "select_users", "raise") \/ has(j, "select_users", "none")))
            => /\ jobs[j].status = "failed" => has(j, "insert_tasks", "raise")
               /\ ~has(j, "visa", "ok") /\ ~has(j, "visa", "raise")
               /\ worker[j].pc = "done" =>
                     \/ has(j, "insert_tasks", "raise")
                     \/ jobs[j].status = "completed" /\ has(j, "insert_tasks", "ok")

\* the lookup raised and the job went on to store its tasks and complete
C27_Witness ==
    \E j \in DOMAIN jobs :
        /\ IsTask(j)
        /\ has(j, "select_users", "raise")
        /\ has(j, "visa", "skipped")
        /\ has(j, "insert_tasks", "ok")
        /\ jobs[j].status = "completed"

\* C28: in one run of generate_visa_tasks the entry-requirement service is
\* queried at most once per destination country code and never for the
\* passport's own country, and resolving a destination whose country the run
\* has already processed adds no task
C28_QueryOncePerCountry ==
    [][\A r \in DOMAIN call.runs :
          LET run == call.runs[r]
              after == call'.runs[r]
          IN  /\ \A m, n \in DOMAIN after.queries :
                    after.queries[m][2] = after.queries[n][2] => m = n
              /\ \A n \in DOMAIN after.queries :
                    /\ after.queries[n][1] = after.passport_code
                    /\ after.queries[n][2] # after.passport_code
              /\ (/\ run.i >= 1
                  /\ after.i = run.i + 1
                  /\ call'.resolved[Len(call'.resolved)].value \in run.seen_countries)
                 => /\ after.tasks = run.tasks
                    /\ after.queries = run.queries]_vars

\* a run over two places of one country has queried the service once, for
\* the first of them, and holds that place's task only
C28_Witness ==
    \E r \in DOMAIN call.runs :
        LET run == call.runs[r]
        IN  /\ run.pc = "done"
            /\ run.destinations = <<(<<"Tokyo", "Japan">>), (<<"Kyoto", "Japan">>)>>
            /\ run.queries = <<(<<"US", "JP">>)>>
            /\ Len(run.tasks) = 1
            /\ run.tasks[1].title.destination = <<"Tokyo", "Japan">>

\* C29: within one run the visa agent emits at most one task for a pair of
\* destination and required document, whatever the destination list and
\* whether or not the citizenship maps to a country code
C29_OneTaskPerDocument ==
    \A r \in DOMAIN call.runs :
        \A m, n \in DOMAIN call.runs[r].tasks :
            call.runs[r].tasks[m].title = call.runs[r].tasks[n].title => m = n

C31_RecommendedGivesNoTask ==
    (call.fn = "_create_tasks_from_research" /\ call.returned) =>
        LET text == call.args.research_text
            described_required(vaccine) ==
                \E p \in 1 .. Len(text) - 1 :
                    text[p] = vaccine /\ text[p + 1] = "is required"
        IN  \A n \in DOMAIN call.value :
                /\ call.value[n].title = "Get required Typhoid vaccine"
                      => described_required("Typhoid")
                /\ call.value[n].title = "Get required Yellow Fever vaccine"
                      => described_required("Yellow Fever")

\* C32: when the request names the range budget, mid-range or luxury, every
\* recommendation returned carries that range as its range_category, whatever
\* range words the research text holds
C32_RequestedRangeWins ==
    (/\ call.fn = "recommend_accommodations"
     /\ call.returned
     /\ call.args.range_type \in {"budget", "mid-range", "luxury"}) =>
        \A i \in DOMAIN call.value : call.value[i].range_category = call.args.range_type

\* C33: no extraction routine raises to its caller, whatever the response
\* text: the per-day and the modification itinerary parsers and the task
\* parser return a list for every input
C33_ExtractionNeverRaises ==
    (/\ call.fn \in {"_parse_itinerary_response", "_parse_single_day_response",
                     "_parse_task_response"}
     /\ call.returned) => ~call.raised

\* C34: the task extraction returns exactly the items that passed validation;
\* an empty array, or one whose items all lack title or category, gives the
\* empty list and no substitute tasks
C34_TasksAreTheValidatedItems ==
    (/\ call.fn = "_parse_task_response"
     /\ call.returned
     /\ call.args.json.kind = "list") =>
        LET valid(t) == t.isdict /\ "title" \in t.keys /\ "category" \in t.keys
            kept == SelectSeq(call.args.json.items, valid)
        IN  call.value = [i \in 1 .. Len(kept) |-> Task(kept[i].title, kept[i].category)]

\* C35: the itinerary parsers, per day and for a modification, drop every
\* parsed item without a title and keep the titled ones in order, so that no
\* returned item has a missing title or one put in by default
C35_UntitledItemsAreDropped ==
    (/\ call.fn \in {"_parse_itinerary_response", "_parse_single_day_response"}
     /\ call.returned
     /\ ~call.raised
     /\ call.args.json.kind = "list"
     /\ \A i \in DOMAIN call.args.json.items : call.args.json.items[i].isdict) =>
        LET titled(item) == "title" \in item.keys
            kept == SelectSeq(call.args.json.items, titled)
        IN  /\ Len(call.value) = Len(kept)
            /\ \A i \in DOMAIN call.value : call.value[i].title = kept[i].title

\* C36: a pipeline worker writes one terminal update (completed or failed)
\* for its job and no update after it: never more than one while it runs,
\* the terminal one last, and exactly one once the worker has returned
C36_OneTerminalUpdate ==
    \A j \in DOMAIN jobs :
        LET ws == updates(j)
            terminal == {i \in DOMAIN ws : ws[i].outcome \in Terminal}
        IN  /\ Cardinality(terminal) <= 1
            /\ terminal \subseteq {Len(ws)}
            /\ worker[j].pc = "done" => Cardinality(terminal) = 1
            /\ terminal # {} => worker[j].pc = "done"

\* a task worker has returned after its progress updates and its one
\* completed update
C36_Witness ==
    \E j \in DOMAIN jobs :
        /\ worker[j].pc = "done"
        /\ Len(updates(j)) >= 3
        /\ updates(j)[Len(updates(j))].outcome = "completed"
        /\ IsTask(j)

\* C37: an update for job j changes of j's record only status, progress,
\* message, result, error and updated_at, and changes no other job's record,
\* however the updates of different jobs interleave; a get changes no
\* registry state
C37_UpdateFrame ==
    [][/\ \A j \in DOMAIN jobs :
             /\ j \in DOMAIN jobs'
             /\ jobs'[j].job_id = jobs[j].job_id
             /\ jobs'[j].trip_id = jobs[j].trip_id
             /\ jobs'[j].job_type = jobs[j].job_type
             /\ jobs'[j].created_at = jobs[j].created_at
       /\ \A j, k \in DOMAIN jobs :
             (jobs'[j] # jobs[j] /\ jobs'[k] # jobs[k]) => j = k
       /\ DOMAIN jobs' # DOMAIN jobs => \A j \in DOMAIN jobs : jobs'[j] = jobs[j]
       /\ call' # call => jobs' = jobs]_vars

\* two jobs are stored, one of them updated to failed at a later time than
\* it was created while the other is still as created, and a get has found
\* a record
C37_Witness ==
    /\ call.fn = "get_job_status"
    /\ call.value = "record"
    /\ \E j, k \in DOMAIN jobs :
          /\ j # k
          /\ jobs[j].status = "failed"
          /\ jobs[j].updated_at > jobs[j].created_at
          /\ jobs[k].status = "pending"

\* C38: get_job_service constructs the JobService at most once in a process
\* and gives every caller that instance, also when the first calls run
\* together on different threads, so that a poll for a job that a request
\* created finds it
C38_OneServicePerProcess ==
    call.fn = "get_job_service" =>
        /\ Len(call._jobs) <= 1
        /\ \A n \in DOMAIN call.polled : call.polled[n].found

\* C39: a task-generation job inserts its merged list at most once; a job
\* that ends failed has inserted nothing, and a job that ends completed has
\* inserted, before its completed update, exactly the list whose length it
\* reports as tasks_count
C39_TasksInsertedOnce ==
    \A j \in DOMAIN jobs :
        IsTask(j) =>
            LET inserts == {i \in DOMAIN trace[j] :
                               trace[j][i].op = "insert_tasks" /\ trace[j][i].outcome = "ok"}
                stored == tasks[jobs[j].trip_id]
            IN  /\ Cardinality(inserts) <= 1
                /\ inserts = {} => stored = <<>>
                /\ worker[j].pc = "complete" => inserts # {} /\ stored = worker[j].tasks
                /\ jobs[j].status = "failed" => inserts = {} /\ stored = <<>>
                /\ jobs[j].status = "completed" =>
                      /\ Cardinality(inserts) = 1
                      /\ \A i \in inserts : i < Len(trace[j])
                      /\ trace[j][Len(trace[j])] = Ev("update", "completed", 100)
                      /\ jobs[j].result = Result("tasks_count", Len(stored))

\* a task job is completed with a list of several tasks stored
C39_Witness ==
    \E j \in DOMAIN jobs :
        /\ IsTask(j)
        /\ jobs[j].status = "completed"
        /\ Len(tasks[jobs[j].trip_id]) >= 2
        /\ jobs[j].result.value = Len(tasks[jobs[j].trip_id])

\* C40: after process_trip the completed_agents list holds each node that
\* ran once, in the order they ran (initialize, finalize), and the status is
\* completed exactly when the errors list is empty
C40_EachNodeOnce ==
    (call.fn = "process_trip" /\ call.returned) =>
        /\ call.value.completed_agents = <<"initialize", "finalize">>
        /\ call.value.status = "completed" <=> call.value.errors = <<>>

====
